---- MODULE Spec2Model ----
(***************************************************************************)
(* The Bitcask-style key/value stores of courses/rust/projects:            *)
(*   project-3-impl/src/bitcask_impl.rs   KvStore, single-threaded         *)
(*   project-4-impl/src/engines/kvs_engine.rs   KvsEngine, shared by       *)
(*                                        threads (clones)                 *)
(* Both keep numbered log files <n>.log, a key directory key_dir that maps *)
(* a key to the span (file_id, kv_pos, len) of its latest Set record, a    *)
(* cache `readers` of open file handles, and a writer on the active file.  *)
(* The variable impl selects which of the two programs a behaviour runs.   *)
(*                                                                         *)
(* A log file is a sequence of bytes.  A byte is modelled by a token: the  *)
(* opening tag of a record, a key, one character of a value, or the        *)
(* closing brace.  serde_json's encoding is self-delimiting in the same    *)
(* way: a record ends where its closing brace is found.                    *)
(***************************************************************************)
EXTENDS Integers, Sequences, FiniteSets, TLC

\* ------------------------------------------------------------------ bounds
\* Mutations are started only while the active file id is below this bound,
\* and the directory is reopened only while it is not above it (every
\* compaction adds 2 to the id, every open 1).
MaxFileId == 3
\* The same bound for the behaviours in which one thread alone uses the store:
\* they are few enough to reach a second compaction of one process.
MaxSoloFileId == 4

\* The number of writes that fail in a behaviour with I/O errors.
MaxIoErrors == 1
\* The requests a client sends on one connection, and how many of them it
\* sends ahead of the server.
MaxRequests == 2
MaxPending == 2
\* The connections the server accepts, one after the other.
MaxConns == 1
\* The times kvs-server is started in one directory.
MaxStarts == 3
\* The records written to one log file.
MaxRecords == 3

\* ------------------------------------------------------- program constants
\* COMPACT_THRESHOLD is 1024 * 1024 bytes in the source; it is scaled to the
\* size of the modelled records (a Set record has 4 or 5 bytes here).
COMPACT_THRESHOLD == 5
\* Capacity of the BufWriter inside BufWriterWithPos (8192 bytes in the
\* source's standard library), scaled the same way.
BufWriterCapacity == 8
BufReaderCapacity == 8

Threads == {"t1", "t2"}
\* The thread that runs the single-threaded KvStore of project 3.
MainThread == "t1"
NoThread == "none"

Keys == {"a", "b"}
\* BTreeMap order of the keys (project 3 iterates its key_dir in key order).
KeyOrder == <<"a", "b">>
Chars == {"x", "y"}
Values == {<<"x">>, <<"y", "y">>}

\* ------------------------------------------------------------ record codec
Cmd_Set(k, v) == [op |-> "Set", key |-> k, value |-> v]
Cmd_Remove(k) == [op |-> "Remove", key |-> k, value |-> <<>>]

\* serde_json::to_writer(&mut writer, &cmd): the bytes of one record.
to_writer(cmd) ==
    IF cmd.op = "Set"
    THEN <<"{S", cmd.key>> \o cmd.value \o <<"}">>
    ELSE <<"{R", cmd.key, "}">>

NoCmd == [ok |-> FALSE, cmd |-> Cmd_Remove(""), end |-> 0]

\* (A decoder that takes all the bytes that are left for one record.)
ParseCmd_whole(s) ==
    IF Len(s) < 3 THEN NoCmd
    ELSE [ok |-> TRUE,
          cmd |-> IF s[1] = "{R" THEN Cmd_Remove(s[2])
                  ELSE Cmd_Set(s[2], SubSeq(s, 3, Len(s) - 1)),
          end |-> Len(s)]

\* One step of serde_json's StreamDeserializer over the bytes s: the first
\* record of s and the offset just past it, or a failure when s does not
\* start with a complete record.
ParseCmd(s) ==
    IF Len(s) >= 3 /\ s[1] = "{R" /\ s[2] \in Keys /\ s[3] = "}"
    THEN [ok |-> TRUE, cmd |-> Cmd_Remove(s[2]), end |-> 3]
    ELSE IF /\ Len(s) >= 3 /\ s[1] = "{S" /\ s[2] \in Keys
            /\ \E j \in 3..Len(s) : s[j] = "}" /\ \A m \in 3..(j - 1) : s[m] \in Chars
         THEN LET j == CHOOSE j \in 3..Len(s) :
                           s[j] = "}" /\ \A m \in 3..(j - 1) : s[m] \in Chars
              IN [ok |-> TRUE, cmd |-> Cmd_Set(s[2], SubSeq(s, 3, j - 1)), end |-> j]
         ELSE NoCmd

\* serde_json::from_reader(reader): exactly one record, nothing after it.
from_reader(s) ==
    LET p == ParseCmd(s) IN IF p.ok /\ p.end = Len(s) THEN p ELSE NoCmd

\* ------------------------------------------------------------ results
Ok == [tag |-> "Ok", val |-> <<>>]
None == [tag |-> "None", val |-> <<>>]
Some(v) == [tag |-> "Some", val |-> v]
Err(e) == [tag |-> "Err", val |-> <<e>>]
\* The call did not return: the thread panicked (expect / unwrap).
Panic == [tag |-> "Panic", val |-> <<>>]

\* ------------------------------------------------------------------ state
VARIABLES
    impl,            \* "p3": KvStore of project 3, "p4": KvsEngine of project 4
    solo,            \* one thread alone uses the store in this behaviour
    opened,          \* open returned an engine handle
    files,           \* the store directory: file id -> bytes of <id>.log
    key_dir,         \* key -> CmdPos [file_id, kv_pos, len]
    readers,         \* handle cache: the file ids that have a cached reader
    check_point,     \* KvsReader.check_point (AtomicU64)
    writer_pos,      \* pos of the writer on the active file
    current_file_id, \* id of the active file
    uncompact,       \* KvsWriter.uncompact / KvStore.uncompact
    compacting,      \* locals of a running compact(): compact_writer, compact_pos, iterator
    lock,            \* holder of the Mutex around KvsWriter, or NoThread
    poisoned,        \* the Mutex is poisoned (a thread panicked while holding it)
    pc,              \* per thread: where it is in its call
    call,            \* per thread: the call in progress, with its history record
    res,             \* per thread: its last finished call and what it returned
    latest,          \* history: key -> value of the last mutation applied to the key
    snap,            \* history: what get returned for each key when compact() began
    compact_id,      \* history: id of the last compaction this process completed, or 0
    io_errors,       \* the writes that have failed so far
    server,          \* Server of project 3: its connection and where handle_client is
    main,            \* kvs-server: where main is, its --engine option, its exit code
    dir,             \* kvs-server: the engine file of the current directory, the stores in it
    log,             \* one log file with its BufWriterWithPos and its BufReaderWithPos
    map              \* the HashMap of project 1's KvStore, given the calls KvStore is given

vars == <<impl, solo, opened, files, key_dir, readers, check_point, writer_pos,
          current_file_id, uncompact, compacting, lock, poisoned, pc, call, res,
          latest, snap, compact_id, io_errors, server, main, dir, log, map>>

store_vars == <<files, key_dir, readers, check_point, writer_pos, current_file_id,
                uncompact, compacting>>

\* ------------------------------------------------------------ small helpers
Min(a, b) == IF a < b THEN a ELSE b

Empty == [x \in {} |-> 0]

\* f with x mapped to v (insert or overwrite).
Put(f, x, v) == [y \in DOMAIN f \cup {x} |-> IF y = x THEN v ELSE f[y]]

\* f without the entries whose key is in S.
Drop(f, S) == [y \in DOMAIN f \ S |-> f[y]]

\* CmdPos::from((file_id, start..end))
CmdPos(file_id, start, end) == [file_id |-> file_id, kv_pos |-> start, len |-> end - start]

\* A write of `bytes` at offset pos of a file holding `content`.
WriteAt(content, pos, bytes) ==
    SubSeq(content, 1, pos) \o bytes
        \o SubSeq(content, pos + Len(bytes) + 1, Len(content))

\* reader.seek(SeekFrom::Start(kv_pos)); reader.take(len): the bytes a reader
\* gets, which stop at the end of the file when the file is shorter.
ReadTake(content, kv_pos, len) ==
    SubSeq(content, kv_pos + 1, Min(kv_pos + len, Len(content)))

\* key_dir.insert(key, cmd_pos) of the DashMap (BTreeMap in project 3).
KeyDirInsert(kd, k, e) == Put(kd, k, e)

\* A remove that leaves the entry in place.
KeyDirRemove_kept(kd, k) == kd
\* key_dir.remove(&key).
KeyDirRemove(kd, k) == Drop(kd, {k})

\* ------------------------------------------------------------ BufWriterWithPos
\* w = [buf: bytes held in the BufWriter, off: offset of the file handle].
NewWriter == [buf |-> <<>>, off |-> 0]

\* BufWriter::flush_buf: the buffered bytes reach the file.
BufWriter_flush(w, content) ==
    [w |-> [buf |-> <<>>, off |-> w.off + Len(w.buf)],
     content |-> WriteAt(content, w.off, w.buf)]

\* BufWriterWithPos::write of one chunk: buffered when it fits, after a flush
\* of the buffer when it does not, written through when it fills the capacity.
BufWriter_write(w, content, bytes) ==
    LET spare == BufWriterCapacity - Len(w.buf)
        f == IF Len(bytes) > spare THEN BufWriter_flush(w, content)
             ELSE [w |-> w, content |-> content]
    IN IF Len(bytes) >= BufWriterCapacity
       THEN [w |-> [buf |-> <<>>, off |-> f.w.off + Len(bytes)],
             content |-> WriteAt(f.content, f.w.off, bytes)]
       ELSE [w |-> [buf |-> f.w.buf \o bytes, off |-> f.w.off], content |-> f.content]

\* new_log_file: create <file_id>.log if it is missing (an existing file is
\* kept as it is: OpenOptions has no truncate), writer at offset 0.
new_log_file(fs, file_id) ==
    IF file_id \in DOMAIN fs THEN fs ELSE Put(fs, file_id, <<>>)

\* ------------------------------------------------------------ open
\* sorted_file_list: the ids of the log files, ascending.
RECURSIVE sorted_file_list(_)
sorted_file_list(ids) ==
    IF ids = {} THEN <<>>
    ELSE LET m == CHOOSE m \in ids : \A o \in ids : m <= o
         IN <<m>> \o sorted_file_list(ids \ {m})

\* (A replay that stops at bytes that do not decode and keeps what it has.)
RECURSIVE load_log_lenient(_, _, _, _, _)
load_log_lenient(file_id, bytes, posi, kd, uncompacted) ==
    LET p == ParseCmd(SubSeq(bytes, posi + 1, Len(bytes))) IN
    IF posi >= Len(bytes) \/ ~p.ok
    THEN [ok |-> TRUE, key_dir |-> kd, uncompacted |-> uncompacted]
    ELSE load_log_lenient(file_id, bytes, posi + p.end,
                          IF p.cmd.op = "Remove" THEN KeyDirRemove(kd, p.cmd.key)
                          ELSE KeyDirInsert(kd, p.cmd.key,
                                            CmdPos(file_id, posi, posi + p.end)),
                          uncompacted)

\* load_log: replay one file into key_dir; the bytes that a compaction would
\* save.  Fails when a record does not decode.
RECURSIVE load_log(_, _, _, _, _)
load_log(file_id, bytes, posi, kd, uncompacted) ==
    IF posi >= Len(bytes)
    THEN [ok |-> TRUE, key_dir |-> kd, uncompacted |-> uncompacted]
    ELSE LET p == ParseCmd(SubSeq(bytes, posi + 1, Len(bytes)))
             new_pos == posi + p.end
             k == p.cmd.key
         IN IF ~p.ok
            THEN [ok |-> FALSE, key_dir |-> kd, uncompacted |-> uncompacted]
            ELSE IF p.cmd.op = "Remove"
            THEN load_log(file_id, bytes, new_pos, KeyDirRemove(kd, k),
                          uncompacted + (IF k \in DOMAIN kd THEN kd[k].len ELSE 0)
                                      + (new_pos - posi))
            ELSE load_log(file_id, bytes, new_pos,
                          KeyDirInsert(kd, k, CmdPos(file_id, posi, new_pos)),
                          uncompacted + (IF k \in DOMAIN kd THEN kd[k].len ELSE 0))

\* The loop of open over the sorted file list.
RECURSIVE open_files(_, _, _, _, _)
open_files(fs, file_list, kd, rd, unc) ==
    IF file_list = <<>>
    THEN [ok |-> TRUE, key_dir |-> kd, readers |-> rd, uncompact |-> unc]
    ELSE LET id == Head(file_list)
             l == load_log(id, fs[id], 0, kd, 0)
         IN IF ~l.ok
            THEN [ok |-> FALSE, key_dir |-> kd, readers |-> rd, uncompact |-> unc]
            ELSE open_files(fs, Tail(file_list), l.key_dir, rd \cup {id},
                            unc + l.uncompacted)

\* The first id of the list plus one.
next_file_id_first(file_list) ==
    (IF file_list = <<>> THEN 0 ELSE file_list[1]) + 1

\* The id of the new active file: the last id of the list plus one.
next_file_id(file_list) ==
    (IF file_list = <<>> THEN 0 ELSE file_list[Len(file_list)]) + 1

\* KvsEngine::open / KvStore::open on the directory fs.
open(fs) ==
    LET file_list == sorted_file_list(DOMAIN fs)
        o == open_files(fs, file_list, Empty, {}, 0)
        id == next_file_id(file_list)
    IN [ok |-> o.ok,
        files |-> IF o.ok THEN new_log_file(fs, id) ELSE fs,
        key_dir |-> o.key_dir,
        readers |-> IF o.ok THEN o.readers \cup {id} ELSE o.readers,
        uncompact |-> o.uncompact,
        current_file_id |-> id]

\* ------------------------------------------------------------ read
\* KvsReader::check_point: the loop looks at the first entry the iterator of
\* the cache yields (any entry: the order is that of the hash map).  It stops
\* when that entry is not below the check point, and otherwise calls remove
\* while it still holds the entry: the call waits for the lock of its own
\* thread.  TRUE when the loop ends with first entry f.
check_point_passes(f) == readers = {} \/ check_point <= f

FirstEntries == IF readers = {} THEN {0} ELSE readers

\* KvsReader::read / the body of KvStore::get for the entry cmd_pos, in the
\* directory fs with the handle cache rd: seek, take(len), from_reader.
\* A file id without a cached reader makes expect() panic.
read(fs, rd, cmd_pos) ==
    IF cmd_pos.file_id \notin rd
    THEN Panic
    ELSE LET p == from_reader(ReadTake(fs[cmd_pos.file_id], cmd_pos.kv_pos, cmd_pos.len))
         IN IF ~p.ok THEN Err("SerdeErr")
            ELSE IF p.cmd.op = "Set" THEN Some(p.cmd.value)
            ELSE Err("CommandNotSupported")

\* What a get(k) that runs alone returns in the current state.
GetValue(k) ==
    IF k \in DOMAIN key_dir THEN read(files, readers, key_dir[k]) ELSE None

\* ------------------------------------------------------------ compaction
NoCompact == [w |-> NewWriter, compact_pos |-> 0, todo |-> {}]

\* The first lines of compact(): the ids, the new active file and the
\* compaction file.  Project 3's new_log_file also caches a reader for each.
compact_begin(fs, rd, cur, p3) ==
    [files |-> new_log_file(new_log_file(fs, cur + 2), cur + 1),
     readers |-> IF p3 THEN rd \cup {cur + 2, cur + 1} ELSE rd,
     current_file_id |-> cur + 2]

\* A turn of the loop that copies the record and leaves the entry's file id.
compact_entry_stale(st, k, cf) ==
    LET e == st.key_dir[k]
        wr == BufWriter_write(st.w, st.files[cf],
                              ReadTake(st.files[e.file_id], e.kv_pos, e.len))
    IN [st EXCEPT !.files = Put(st.files, cf, wr.content), !.w = wr.w,
                  !.key_dir = Put(st.key_dir, k, [e EXCEPT !.kv_pos = st.compact_pos]),
                  !.compact_pos = st.compact_pos + e.len]

\* A turn of the loop that copies the record and leaves compact_pos.
compact_entry_overlap(st, k, cf) ==
    LET e == st.key_dir[k]
        wr == BufWriter_write(st.w, st.files[cf],
                              ReadTake(st.files[e.file_id], e.kv_pos, e.len))
    IN [st EXCEPT !.files = Put(st.files, cf, wr.content), !.w = wr.w,
                  !.key_dir = Put(st.key_dir, k,
                                  [file_id |-> cf, kv_pos |-> st.compact_pos, len |-> e.len])]

\* One turn of the loop of compact() over key_dir, for the entry of key k:
\* st = [files, key_dir, readers, w, compact_pos, panic], cf = compact_file_id.
compact_entry(st, k, cf) ==
    LET e == st.key_dir[k] IN
    IF e.file_id \notin st.readers
    THEN [st EXCEPT !.panic = TRUE]
    ELSE LET bytes == ReadTake(st.files[e.file_id], e.kv_pos, e.len)
             wr == BufWriter_write(st.w, st.files[cf], bytes)
         IN [files |-> Put(st.files, cf, wr.content),
             key_dir |-> Put(st.key_dir, k,
                             [file_id |-> cf, kv_pos |-> st.compact_pos, len |-> e.len]),
             readers |-> st.readers,
             w |-> wr.w,
             compact_pos |-> st.compact_pos + e.len,
             panic |-> FALSE]

\* compact_writer.flush(), also run by the drop of compact_writer.
compact_flush(fs, w, cf) ==
    LET f == BufWriter_flush(w, fs[cf]) IN Put(fs, cf, f.content)

\* The end of compact(): the cached readers below compact_file_id leave the
\* cache and their files are unlinked.
remove_files(rd, cf) == {f \in rd : f < cf}

compact_unlink(fs, rd, cf) ==
    [files |-> Drop(fs, remove_files(rd, cf)),
     readers |-> rd \ remove_files(rd, cf)]

\* ------------------------------------------------------------ project 1: KvStore
\* The in-memory KvStore of project 1 (hash_impl.rs): each method gives the
\* HashMap after the call and what the call returns.
\* KvStore::set: self.map.insert(key, value), no result.
hash_impl_set(m, k, v) == [map |-> Put(m, k, v), ret |-> Ok]

\* KvStore::get: self.map.get(&key).cloned().
hash_impl_get(m, k) == [map |-> m, ret |-> IF k \in DOMAIN m THEN Some(m[k]) ELSE None]

\* (A remove that returns the value and leaves the entry.)
hash_impl_remove_kept(m, k) == [map |-> m, ret |-> hash_impl_get(m, k).ret]

\* KvStore::remove: self.map.remove(&key), the value that was removed.
hash_impl_remove(m, k) == [map |-> Drop(m, {k}), ret |-> hash_impl_get(m, k).ret]

\* The call op(k, v) made on the HashMap store.
hash_impl(m, op, k, v) ==
    IF op = "set" THEN hash_impl_set(m, k, v)
    ELSE IF op = "rm" THEN hash_impl_remove(m, k)
    ELSE hash_impl_get(m, k)

\* ------------------------------------------------------------ history records
\* seen: the value a mutation in progress has replaced, once it has replaced
\* it; wide, ovl: see NewCall; peer: see Peers; ref: what the same call
\* returned from the HashMap store of project 1.
NoCall == [op |-> "none", key |-> "", value |-> <<>>, pos |-> 0, seen |-> {},
           wide |-> {}, ovl |-> {}, appended |-> FALSE, peer |-> {}, ref |-> Ok]
NoRes == [op |-> "none", key |-> "", ret |-> Ok, wide |-> {}, ovl |-> {},
          appended |-> FALSE, peer |-> {}, ref |-> Ok]

IsMutation(c) == c.op \in {"set", "rm"}
Effect(c) == IF c.op = "set" THEN Some(c.value) ELSE None
\* How the mutation c lies to a call on key k: a set of another key, or not.
Kind(c, k) == IF c.op = "set" /\ c.key # k THEN "set_other" ELSE "other"

\* The record of a call op(k, v) that thread t starts now.  wide holds every
\* value key k has now, or had or may get from a mutation in progress in
\* another thread; ovl holds the kinds of the mutations in progress in other
\* threads.
NewCall(t, op, k, v) ==
    LET others == {u \in Threads \ {t} : IsMutation(call[u])}
    IN [op |-> op, key |-> k, value |-> v, pos |-> 0, seen |-> {},
        wide |-> {latest[k]} \cup
                 UNION {call[u].seen \cup {Effect(call[u])} :
                            u \in {o \in others : call[o].key = k}},
        ovl |-> {Kind(call[u], k) : u \in others},
        appended |-> FALSE, peer |-> {},
        ref |-> hash_impl(map, op, k, v).ret]

\* The calls in progress when thread t starts the call c: a get in progress
\* learns of a mutation c; a remove in progress forgets its peers when its key
\* is set again.
Started(t, c) ==
    [u \in Threads |->
        IF u = t THEN c
        ELSE IF call[u].op = "rm" /\ c.op = "set" /\ c.key = call[u].key
        THEN [call[u] EXCEPT !.peer = {}]
        ELSE IF call[u].op # "get" \/ ~IsMutation(c) THEN call[u]
        ELSE [call[u] EXCEPT
                !.wide = IF call[u].key = c.key THEN @ \cup {latest[c.key], Effect(c)}
                         ELSE @,
                !.ovl = @ \cup {Kind(c, call[u].key)}]]

\* The record kept while a call is in progress: only a get keeps wide and ovl.
InFlight(c) == IF c.op = "get" THEN c ELSE [c EXCEPT !.wide = {}, !.ovl = {}]

Result(c, ret) ==
    [op |-> c.op, key |-> c.key, ret |-> ret, wide |-> c.wide, ovl |-> c.ovl,
     appended |-> c.appended, peer |-> c.peer, ref |-> c.ref]

\* res holds what the last step returned, if it was the return of a call.
NoReturn == res' = [t \in Threads |-> NoRes]
Returned(t, r) == res' = [u \in Threads |-> IF u = t THEN r ELSE NoRes]

\* The calls in progress when thread t returns r from a remove that found its
\* key present: a remove of the same key in progress in another thread, which
\* found it present too, records the return.
Peers(t, r) ==
    [u \in Threads |->
        IF u = t THEN NoCall
        ELSE IF r.op = "rm" /\ call[u].op = "rm" /\ call[u].key = r.key
        THEN [call[u] EXCEPT !.peer = @ \cup {[ret |-> r.ret, appended |-> r.appended]}]
        ELSE call[u]]

\* Thread t returns ret from its call.
Return(t, ret) ==
    /\ Returned(t, Result(call[t], ret))
    /\ call' = Peers(t, Result(call[t], ret))
    /\ pc' = [pc EXCEPT ![t] = "idle"]

\* A call of thread t that returns ret in the step that starts it.
ReturnAtOnce(t, op, k, v, ret) ==
    /\ Returned(t, Result(NewCall(t, op, k, v), ret))
    /\ UNCHANGED <<pc, call>>

\* Another thread holds a Ref of key_dir.get(k): insert, remove and iter_mut
\* wait for it.  (Each key is taken to lie in a shard of its own, the least
\* waiting a DashMap can cause.)
RefHeld(t, k) ==
    \E u \in Threads \ {t} : pc[u] \in {"read", "blocked"} /\ call[u].key = k

NoSnap == [k \in Keys |-> None]

\* A new log file, the writer of new_log_file on it, no reader yet.
NoLog == [pc |-> "write", content |-> <<>>,
          w |-> NewWriter, wpos |-> 0, r |-> [buf |-> <<>>, off |-> 0], rpos |-> 0,
          pending |-> <<>>, written |-> <<>>, posi |-> 0, decoded |-> <<>>,
          failed |-> FALSE]

\* kvs-server before it is started, and a directory with no engine file and
\* no store.
NoEngine == "none"
NoMain == [pc |-> "exited", arg |-> NoEngine, curr |-> NoEngine, engine |-> NoEngine,
           code |-> 0, runs |-> <<>>]
NoDir == [engine |-> NoEngine, stores |-> {}]

\* The server before it accepts a connection.
NoRequest == [op |-> "none", key |-> "", value |-> <<>>]
NoServer == [pc |-> "accept", conn |-> 0, inbox |-> <<>>, eof |-> FALSE,
             req |-> NoRequest, decoded |-> <<>>, buf |-> <<>>, out |-> <<>>,
             waiting |-> <<>>, joined |-> {}, logged |-> 0]

\* ------------------------------------------------------------ initial state
\* No call has been made, no compaction has run, the writer is at the start
\* of the active file; no server, no kvs-server, no log file beside the store.
NoCalls ==
    /\ writer_pos = 0
    /\ compacting = NoCompact
    /\ lock = NoThread
    /\ poisoned = FALSE
    /\ pc = [t \in Threads |-> "idle"]
    /\ call = [t \in Threads |-> NoCall]
    /\ res = [t \in Threads |-> NoRes]
    /\ snap = NoSnap
    /\ compact_id = 0
    /\ io_errors = 0
    /\ server = NoServer
    /\ main = NoMain
    /\ dir = NoDir
    /\ log = NoLog
    /\ map = Empty

\* KvsEngine::open / KvStore::open on an empty directory.
Opened ==
    /\ LET o == open(Empty) IN
         /\ opened = o.ok
         /\ files = o.files
         /\ key_dir = o.key_dir
         /\ readers = o.readers
         /\ uncompact = o.uncompact
         /\ current_file_id = o.current_file_id
    /\ check_point = 0
    /\ latest = [k \in Keys |-> None]
    /\ NoCalls

Init == impl \in {"p3", "p4"} /\ solo = FALSE /\ Opened

\* The store used by one thread alone.
InitSolo == impl \in {"p3", "p4"} /\ solo = TRUE /\ Opened

\* The bound on the active file id in this behaviour.
FileIdLimit == IF solo THEN MaxSoloFileId ELSE MaxFileId

\* The threads run the same code: when no call is in progress, the next call
\* is taken to be started by MainThread.
CanStart(t) ==
    /\ pc[t] = "idle"
    /\ t = MainThread \/ (~solo /\ pc[MainThread] # "idle")

\* ------------------------------------------------------------ project 4: get
\* KvsEngine::get: key_dir.get(&key); the Ref is held while read runs.
KvsEngine_get(t, k) ==
    /\ impl = "p4" /\ opened /\ CanStart(t)
    /\ IF k \in DOMAIN key_dir
       THEN /\ call' = Started(t, NewCall(t, "get", k, <<>>))
            /\ pc' = [pc EXCEPT ![t] = "read"]
            /\ NoReturn
       ELSE ReturnAtOnce(t, "get", k, <<>>, None)
    /\ UNCHANGED <<map, log, main, dir, server, impl, solo, io_errors, compact_id, opened, store_vars, lock, poisoned, latest,
                   snap>>

\* KvsReader::read: check_point(), then the read through the cached reader.
KvsReader_read(t) ==
    /\ pc[t] = "read"
    /\ \E f \in FirstEntries :
         IF check_point_passes(f)
         THEN Return(t, read(files, readers, key_dir[call[t].key]))
         ELSE /\ pc' = [pc EXCEPT ![t] = "blocked"]
              /\ NoReturn
              /\ UNCHANGED call
    /\ UNCHANGED <<map, log, main, dir, server, impl, solo, io_errors, compact_id, opened, files, key_dir, readers,
                   check_point, writer_pos,
                   current_file_id, uncompact, compacting, lock, poisoned, latest, snap>>

\* ------------------------------------------------------------ project 4: set
\* A lock that excludes nobody.
Mutex_lock_ready_unlocked == TRUE
\* Mutex::lock returns when no thread holds the mutex.
Mutex_lock_ready == lock = NoThread

\* The append of a mutation: to_writer and flush; the bytes are in the active
\* file, writer.pos is past them.
append(fs, cur, pos, cmd) == Put(fs, cur, WriteAt(fs[cur], pos, to_writer(cmd)))

\* KvsEngine::set: self.writer.lock().unwrap() (unwrap panics on a poisoned
\* mutex), and the start of KvsWriter::set: to_writer and flush.
KvsEngine_set(t, k, v) ==
    /\ impl = "p4" /\ opened /\ CanStart(t)
    /\ current_file_id < FileIdLimit
    /\ Mutex_lock_ready
    /\ IF poisoned
       THEN /\ ReturnAtOnce(t, "set", k, v, Panic)
            /\ UNCHANGED <<lock, files, writer_pos>>
       ELSE /\ lock' = t
            /\ files' = append(files, current_file_id, writer_pos, Cmd_Set(k, v))
            /\ writer_pos' = writer_pos + Len(to_writer(Cmd_Set(k, v)))
            /\ call' = Started(t, [InFlight(NewCall(t, "set", k, v)) EXCEPT
                                      !.pos = writer_pos, !.appended = TRUE])
            /\ pc' = [pc EXCEPT ![t] = "set_insert"]
            /\ NoReturn
    /\ UNCHANGED <<map, log, main, dir, server, impl, solo, io_errors, compact_id, opened, key_dir, readers, check_point,
                   current_file_id,
                   uncompact, compacting, poisoned, latest, snap>>

\* uncompact after an entry old of key k left the key directory kd.
uncompact_add(unc, kd, k) == unc + (IF k \in DOMAIN kd THEN kd[k].len ELSE 0)

\* The test at the end of set and remove: uncompact >= COMPACT_THRESHOLD.
must_compact_late(unc) == unc > COMPACT_THRESHOLD

must_compact(unc) == unc >= COMPACT_THRESHOLD

\* The end of KvsWriter::set and KvsWriter::remove of thread t, which has
\* replaced the value old: when uncompact has reached the threshold, compact()
\* up to its loop (nothing of it shows to another thread before the loop),
\* and otherwise Ok.
KvsWriter_finish(t, old) ==
    IF must_compact(uncompact')
    THEN LET b == compact_begin(files, readers, current_file_id, FALSE) IN
         /\ files' = b.files
         /\ readers' = b.readers
         /\ current_file_id' = b.current_file_id
         /\ writer_pos' = 0
         /\ compacting' = [w |-> NewWriter, compact_pos |-> 0, todo |-> DOMAIN key_dir']
         /\ snap' = [k \in Keys |-> GetValue(k)']
         /\ call' = [call EXCEPT ![t].seen = {old}]
         /\ pc' = [pc EXCEPT ![t] = "compact_iter"]
         /\ NoReturn
         /\ UNCHANGED lock
    ELSE /\ Return(t, Ok)
         /\ lock' = NoThread
         /\ UNCHANGED <<files, readers, current_file_id, writer_pos, compacting, snap>>

\* KvsWriter::set, key_dir.insert and the accounting; then compact() or Ok.
KvsWriter_set_insert(t) ==
    /\ pc[t] = "set_insert"
    /\ ~RefHeld(t, call[t].key)
    /\ LET k == call[t].key IN
          /\ key_dir' = KeyDirInsert(key_dir, k,
                                     CmdPos(current_file_id, call[t].pos, writer_pos))
          /\ uncompact' = uncompact_add(uncompact, key_dir, k)
          /\ latest' = [latest EXCEPT ![k] = Some(call[t].value)]
          /\ KvsWriter_finish(t, latest[k])
    /\ UNCHANGED <<map, log, main, dir, server, impl, solo, io_errors, compact_id, opened, check_point, poisoned>>

\* ------------------------------------------------------------ project 4: remove
\* KvsEngine::remove: the presence check, made before the mutex is taken.
KvsEngine_remove(t, k) ==
    /\ impl = "p4" /\ opened /\ CanStart(t)
    /\ current_file_id < FileIdLimit
    /\ IF k \in DOMAIN key_dir
       THEN /\ call' = Started(t, InFlight(NewCall(t, "rm", k, <<>>)))
            /\ pc' = [pc EXCEPT ![t] = "rm_lock"]
            /\ NoReturn
       ELSE ReturnAtOnce(t, "rm", k, <<>>, Err("KeyNotFound"))
    /\ UNCHANGED <<map, log, main, dir, server, impl, solo, io_errors, compact_id, opened, store_vars, lock, poisoned, latest,
                   snap>>

\* KvsEngine::remove: self.writer.lock().unwrap(), and the start of
\* KvsWriter::remove: to_writer and flush.
KvsEngine_remove_lock(t) ==
    /\ pc[t] = "rm_lock"
    /\ Mutex_lock_ready
    /\ IF poisoned
       THEN /\ Return(t, Panic)
            /\ UNCHANGED <<lock, files, writer_pos>>
       ELSE /\ lock' = t
            /\ files' = append(files, current_file_id, writer_pos,
                               Cmd_Remove(call[t].key))
            /\ writer_pos' = writer_pos + Len(to_writer(Cmd_Remove(call[t].key)))
            /\ call' = [call EXCEPT ![t].pos = writer_pos, ![t].appended = TRUE]
            /\ pc' = [pc EXCEPT ![t] = "rm_remove"]
            /\ NoReturn
    /\ UNCHANGED <<map, log, main, dir, server, impl, solo, io_errors, compact_id, opened, key_dir, readers, check_point,
                   current_file_id,
                   uncompact, compacting, poisoned, latest, snap>>

\* KvsWriter::remove, key_dir.remove(&key).expect("key not found") and the
\* accounting; then compact() or Ok.  A panic here poisons the mutex.
KvsWriter_remove_entry(t) ==
    /\ pc[t] = "rm_remove"
    /\ ~RefHeld(t, call[t].key)
    /\ LET k == call[t].key IN
          IF k \notin DOMAIN key_dir
          THEN /\ Return(t, Panic)
               /\ poisoned' = TRUE
               /\ lock' = NoThread
               /\ UNCHANGED <<key_dir, uncompact, latest, files, readers,
                              current_file_id, writer_pos, compacting, snap>>
          ELSE /\ key_dir' = KeyDirRemove(key_dir, k)
               /\ uncompact' = uncompact_add(uncompact, key_dir, k)
               /\ latest' = [latest EXCEPT ![k] = None]
               /\ UNCHANGED poisoned
               /\ KvsWriter_finish(t, latest[k])
    /\ UNCHANGED <<map, log, main, dir, server, impl, solo, io_errors, compact_id, opened, check_point>>

\* ------------------------------------------------------------ project 4: compact
\* KvsWriter::compact, one turn of the loop (iter_mut yields the entries in
\* the order of the hash map).  expect("can't find log file;") panics when
\* the entry's file has no cached reader; the unwinding drops compact_writer,
\* which flushes it, and poisons the mutex.
KvsWriter_compact_entry(t) ==
    /\ pc[t] = "compact_iter"
    /\ \E k \in compacting.todo :
         /\ ~RefHeld(t, k)
         /\ LET cf == current_file_id - 1
                st == compact_entry([files |-> files, key_dir |-> key_dir,
                                     readers |-> readers, w |-> compacting.w,
                                     compact_pos |-> compacting.compact_pos,
                                     panic |-> FALSE], k, cf)
            IN IF st.panic
               THEN /\ files' = compact_flush(files, compacting.w, cf)
                    /\ compacting' = NoCompact
                    /\ snap' = NoSnap
                    /\ poisoned' = TRUE
                    /\ lock' = NoThread
                    /\ Return(t, Panic)
                    /\ UNCHANGED <<key_dir, readers>>
               ELSE /\ files' = st.files
                    /\ key_dir' = st.key_dir
                    /\ readers' = st.readers
                    /\ compacting' = [w |-> st.w, compact_pos |-> st.compact_pos,
                                      todo |-> compacting.todo \ {k}]
                    /\ NoReturn
                    /\ UNCHANGED <<snap, poisoned, lock, pc, call>>
    /\ UNCHANGED <<map, log, main, dir, server, impl, solo, io_errors, compact_id, opened, check_point, writer_pos,
                   current_file_id, uncompact,
                   latest>>

\* KvsWriter::compact, compact_writer.flush() after the loop.
KvsWriter_compact_flush(t) ==
    /\ pc[t] = "compact_iter"
    /\ compacting.todo = {}
    /\ files' = compact_flush(files, compacting.w, current_file_id - 1)
    /\ compacting' = [compacting EXCEPT
                         !.w = BufWriter_flush(@, files[current_file_id - 1]).w]
    /\ pc' = [pc EXCEPT ![t] = "compact_unlink"]
    /\ NoReturn
    /\ UNCHANGED <<map, log, main, dir, server, impl, solo, io_errors, compact_id, opened, key_dir, readers, check_point,
                   writer_pos,
                  current_file_id, uncompact, lock, poisoned, call, latest, snap>>

\* KvsWriter::compact, the removal of the old files, uncompact = 0, Ok.
KvsWriter_compact_unlink(t) ==
    /\ pc[t] = "compact_unlink"
    /\ LET u == compact_unlink(files, readers, current_file_id - 1) IN
         /\ files' = u.files
         /\ readers' = u.readers
    /\ uncompact' = 0
    /\ compact_id' = current_file_id - 1
    /\ compacting' = NoCompact
    /\ snap' = NoSnap
    /\ lock' = NoThread
    /\ Return(t, Ok)
    /\ UNCHANGED <<map, log, main, dir, server, impl, solo, io_errors, opened, key_dir, check_point, writer_pos, current_file_id,
                   poisoned, latest>>

\* ------------------------------------------------------------ project 3: KvStore
\* KvStore::get.
KvStore_get(k) ==
    /\ impl = "p3" /\ opened /\ pc[MainThread] = "idle"
    /\ IF k \in DOMAIN key_dir
       THEN ReturnAtOnce(MainThread, "get", k, <<>>, read(files, readers, key_dir[k]))
       ELSE ReturnAtOnce(MainThread, "get", k, <<>>, None)
    /\ UNCHANGED <<map, log, main, dir, server, impl, solo, io_errors, compact_id, opened, files, key_dir, readers,
                   check_point, writer_pos,
                   current_file_id, uncompact, compacting, lock, poisoned, latest, snap>>

\* The end of KvStore::set and KvStore::remove for the call c: compact() when
\* uncompact has reached the threshold, and Ok.
KvStore_finish(c) ==
    IF must_compact(uncompact')
    THEN /\ call' = [call EXCEPT ![MainThread] = c]
         /\ pc' = [pc EXCEPT ![MainThread] = "p3_compact"]
         /\ NoReturn
         /\ snap' = [x \in Keys |-> GetValue(x)']
    ELSE /\ Returned(MainThread, Result(c, Ok))
         /\ UNCHANGED <<call, pc, snap>>

\* KvStore::set up to its call of compact().
KvStore_set(k, v) ==
    /\ impl = "p3" /\ opened /\ pc[MainThread] = "idle"
    /\ map' = hash_impl_set(map, k, v).map
    /\ current_file_id < FileIdLimit
    /\ files' = append(files, current_file_id, writer_pos, Cmd_Set(k, v))
    /\ writer_pos' = writer_pos + Len(to_writer(Cmd_Set(k, v)))
    /\ key_dir' = KeyDirInsert(key_dir, k,
                               CmdPos(current_file_id, writer_pos, writer_pos'))
    /\ uncompact' = uncompact_add(uncompact, key_dir, k)
    /\ latest' = [latest EXCEPT ![k] = Some(v)]
    /\ UNCHANGED <<log, main, dir, server, impl, solo, io_errors, compact_id, opened, readers, check_point,
                   current_file_id, compacting,
                   lock, poisoned>>
    /\ KvStore_finish([NewCall(MainThread, "set", k, v) EXCEPT
                          !.pos = writer_pos, !.appended = TRUE,
                          !.seen = {latest[k]}])

\* (A remove that writes its record before it looks for the key.)
KvStore_remove_logged(k) ==
    /\ impl = "p3" /\ opened /\ pc[MainThread] = "idle"
    /\ map' = hash_impl_remove(map, k).map
    /\ current_file_id < FileIdLimit
    /\ files' = append(files, current_file_id, writer_pos, Cmd_Remove(k))
    /\ writer_pos' = writer_pos + Len(to_writer(Cmd_Remove(k)))
    /\ ReturnAtOnce(MainThread, "rm", k, <<>>, Err("KeyNotFound"))
    /\ UNCHANGED <<log, main, dir, server, impl, solo, io_errors, compact_id, opened,
                   readers, check_point, current_file_id, compacting, lock, poisoned,
                   key_dir, uncompact, latest, snap>>

\* KvStore::remove up to its call of compact().
KvStore_remove(k) ==
    /\ impl = "p3" /\ opened /\ pc[MainThread] = "idle"
    /\ map' = hash_impl_remove(map, k).map
    /\ current_file_id < FileIdLimit
    /\ UNCHANGED <<log, main, dir, server, impl, solo, io_errors, compact_id, opened, readers, check_point,
                   current_file_id, compacting,
                   lock, poisoned>>
    /\ IF k \in DOMAIN key_dir
       THEN /\ files' = append(files, current_file_id, writer_pos, Cmd_Remove(k))
            /\ writer_pos' = writer_pos + Len(to_writer(Cmd_Remove(k)))
            /\ key_dir' = KeyDirRemove(key_dir, k)
            /\ uncompact' = uncompact_add(uncompact, key_dir, k)
            /\ latest' = [latest EXCEPT ![k] = None]
            /\ KvStore_finish([NewCall(MainThread, "rm", k, <<>>) EXCEPT
                                  !.pos = writer_pos, !.appended = TRUE,
                                  !.seen = {latest[k]}])
       ELSE /\ ReturnAtOnce(MainThread, "rm", k, <<>>, Err("KeyNotFound"))
            /\ UNCHANGED <<files, writer_pos, key_dir, uncompact, latest, snap>>

\* The loop of KvStore::compact over the BTreeMap, in key order.
RECURSIVE compact_loop(_, _, _)
compact_loop(st, ks, cf) ==
    IF ks = <<>> \/ st.panic THEN st
    ELSE compact_loop(compact_entry(st, Head(ks), cf), Tail(ks), cf)

IsKey(k) == k \in DOMAIN key_dir

\* KvStore::compact, called at the end of set or remove.
KvStore_compact ==
    /\ impl = "p3" /\ pc[MainThread] = "p3_compact"
    /\ LET cf == current_file_id + 1
           b == compact_begin(files, readers, current_file_id, TRUE)
           st == compact_loop([files |-> b.files, key_dir |-> key_dir,
                               readers |-> b.readers, w |-> NewWriter,
                               compact_pos |-> 0, panic |-> FALSE],
                              SelectSeq(KeyOrder, IsKey), cf)
           u == compact_unlink(compact_flush(st.files, st.w, cf), st.readers, cf)
       IN /\ current_file_id' = b.current_file_id
          /\ writer_pos' = 0
          /\ key_dir' = st.key_dir
          /\ IF st.panic
             THEN /\ files' = compact_flush(st.files, st.w, cf)
                  /\ readers' = st.readers
                  /\ UNCHANGED <<uncompact, compact_id>>
                  /\ opened' = FALSE
                  /\ Return(MainThread, Panic)
             ELSE /\ files' = u.files
                  /\ readers' = u.readers
                  /\ uncompact' = 0
                  /\ compact_id' = cf
                  /\ UNCHANGED opened
                  /\ Return(MainThread, Ok)
    /\ snap' = NoSnap
    /\ UNCHANGED <<map, log, main, dir, server, impl, solo, io_errors, check_point, compacting, lock, poisoned, latest>>

\* ------------------------------------------------------------ close and open
\* The engine and its clones are dropped (no call is running) and the
\* directory is opened again.
Reopen ==
    /\ \A t \in Threads : pc[t] = "idle"
    /\ current_file_id <= FileIdLimit
    /\ LET o == open(files) IN
         /\ opened' = o.ok
         /\ files' = o.files
         /\ key_dir' = o.key_dir
         /\ readers' = o.readers
         /\ uncompact' = o.uncompact
         /\ current_file_id' = o.current_file_id
    /\ check_point' = 0
    /\ compact_id' = 0
    /\ writer_pos' = 0
    /\ compacting' = NoCompact
    /\ lock' = NoThread
    /\ poisoned' = FALSE
    /\ NoReturn
    /\ UNCHANGED <<map, log, main, dir, server, impl, solo, io_errors, pc, call, latest, snap>>

\* ------------------------------------------------------------ I/O errors
\* What a failed append leaves in the writer of the active file: nothing, a
\* part of the record, or all of it (the error came from the flush).
PrefixLens(bytes) == {0, 1, Len(bytes)}

\* The behaviour has not had its MaxIoErrors failed writes yet.
NoIoError == io_errors < MaxIoErrors

\* A write fails.
io_error == NoIoError /\ io_errors' = io_errors + 1

\* The active file and writer.pos after an append of cmd failed past its
\* first n bytes.
append_failed(cmd, n) ==
    /\ io_error
    /\ files' = Put(files, current_file_id,
                    WriteAt(files[current_file_id], writer_pos,
                            SubSeq(to_writer(cmd), 1, n)))
    /\ writer_pos' = writer_pos + n

\* KvsEngine::set, to_writer(..)? or flush()? returns the error: the mutex
\* guard is dropped, key_dir.insert is not reached.
KvsEngine_set_io_error(t, k, v) ==
    /\ impl = "p4" /\ opened /\ CanStart(t)
    /\ current_file_id < FileIdLimit
    /\ Mutex_lock_ready /\ ~poisoned
    /\ \E n \in PrefixLens(to_writer(Cmd_Set(k, v))) : append_failed(Cmd_Set(k, v), n)
    /\ ReturnAtOnce(t, "set", k, v, Err("Io"))
    /\ UNCHANGED <<map, log, main, dir, server, impl, solo, compact_id, opened, key_dir, readers, check_point,
                   current_file_id, uncompact, compacting, lock, poisoned, latest,
                   snap>>

\* KvsEngine::remove, to_writer(..)? or flush()? returns the error.
KvsEngine_remove_io_error(t) ==
    /\ pc[t] = "rm_lock"
    /\ Mutex_lock_ready /\ ~poisoned
    /\ \E n \in PrefixLens(to_writer(Cmd_Remove(call[t].key))) :
          append_failed(Cmd_Remove(call[t].key), n)
    /\ Return(t, Err("Io"))
    /\ UNCHANGED <<map, log, main, dir, server, impl, solo, compact_id, opened, key_dir, readers, check_point,
                   current_file_id, uncompact, compacting, lock, poisoned, latest,
                   snap>>

\* KvsWriter::compact, seek(..)?, io::copy(..)? or flush()? returns the error
\* to set or remove, which return it (self.compact()?): compact_writer is
\* dropped, which flushes it, and the mutex guard is dropped.
KvsWriter_compact_io_error(t) ==
    /\ pc[t] = "compact_iter"
    /\ io_error
    /\ files' = compact_flush(files, compacting.w, current_file_id - 1)
    /\ compacting' = NoCompact
    /\ snap' = NoSnap
    /\ lock' = NoThread
    /\ Return(t, Err("Io"))
    /\ UNCHANGED <<map, log, main, dir, server, impl, solo, compact_id, opened, key_dir, readers, check_point,
                   writer_pos, current_file_id, uncompact, poisoned, latest>>

\* KvStore::set, to_writer(..)? or flush()? returns the error.
KvStore_set_io_error(k, v) ==
    /\ impl = "p3" /\ opened /\ pc[MainThread] = "idle"
    /\ map' = hash_impl_set(map, k, v).map
    /\ current_file_id < FileIdLimit
    /\ \E n \in PrefixLens(to_writer(Cmd_Set(k, v))) : append_failed(Cmd_Set(k, v), n)
    /\ ReturnAtOnce(MainThread, "set", k, v, Err("Io"))
    /\ UNCHANGED <<log, main, dir, server, impl, solo, compact_id, opened, key_dir, readers, check_point,
                   current_file_id, uncompact, compacting, lock, poisoned, latest,
                   snap>>

\* KvStore::remove of a present key, to_writer(..)? or flush()? returns the
\* error.
KvStore_remove_io_error(k) ==
    /\ impl = "p3" /\ opened /\ pc[MainThread] = "idle"
    /\ map' = hash_impl_remove(map, k).map
    /\ current_file_id < FileIdLimit
    /\ k \in DOMAIN key_dir
    /\ \E n \in PrefixLens(to_writer(Cmd_Remove(k))) : append_failed(Cmd_Remove(k), n)
    /\ ReturnAtOnce(MainThread, "rm", k, <<>>, Err("Io"))
    /\ UNCHANGED <<log, main, dir, server, impl, solo, compact_id, opened, key_dir, readers, check_point,
                   current_file_id, uncompact, compacting, lock, poisoned, latest,
                   snap>>

\* KvStore::compact, seek(..)?, io::copy(..)? or flush()? returns the error
\* after n turns of the loop.
KvStore_compact_io_error ==
    /\ impl = "p3" /\ pc[MainThread] = "p3_compact"
    /\ io_error
    /\ LET cf == current_file_id + 1
           b == compact_begin(files, readers, current_file_id, TRUE)
           ks == SelectSeq(KeyOrder, IsKey)
       IN \E n \in 0..Len(ks) :
            LET st == compact_loop([files |-> b.files, key_dir |-> key_dir,
                                    readers |-> b.readers, w |-> NewWriter,
                                    compact_pos |-> 0, panic |-> FALSE],
                                   SubSeq(ks, 1, n), cf)
            IN /\ ~st.panic
               /\ current_file_id' = b.current_file_id
               /\ writer_pos' = 0
               /\ key_dir' = st.key_dir
               /\ files' = compact_flush(st.files, st.w, cf)
               /\ readers' = st.readers
    /\ snap' = NoSnap
    /\ Return(MainThread, Err("Io"))
    /\ UNCHANGED <<map, log, main, dir, server, impl, solo, compact_id, opened, check_point, uncompact, compacting,
                   lock, poisoned, latest>>

\* ------------------------------------------------------------ specification
Next ==
    \/ \E t \in Threads, k \in Keys : KvsEngine_get(t, k)
    \/ \E t \in Threads : KvsReader_read(t)
    \/ \E t \in Threads, k \in Keys, v \in Values : KvsEngine_set(t, k, v)
    \/ \E t \in Threads : KvsWriter_set_insert(t)
    \/ \E t \in Threads, k \in Keys : KvsEngine_remove(t, k)
    \/ \E t \in Threads : KvsEngine_remove_lock(t)
    \/ \E t \in Threads : KvsWriter_remove_entry(t)
    \/ \E t \in Threads : KvsWriter_compact_entry(t)
    \/ \E t \in Threads : KvsWriter_compact_flush(t)
    \/ \E t \in Threads : KvsWriter_compact_unlink(t)
    \/ \E k \in Keys : KvStore_get(k)
    \/ \E k \in Keys, v \in Values : KvStore_set(k, v)
    \/ \E k \in Keys : KvStore_remove(k)
    \/ KvStore_compact
    \/ Reopen

Spec == Init /\ [][Next]_vars

SpecSolo == InitSolo /\ [][Next]_vars

\* The calls of one process, one thread, any of whose writes may fail; the
\* behaviour is followed up to the return of the call whose write was the
\* last to fail.
NextIo ==
    \/ \E t \in Threads, k \in Keys : NoIoError /\ KvsEngine_get(t, k)
    \/ \E t \in Threads : NoIoError /\ KvsReader_read(t)
    \/ \E t \in Threads, k \in Keys, v \in Values : NoIoError /\ KvsEngine_set(t, k, v)
    \/ \E t \in Threads : NoIoError /\ KvsWriter_set_insert(t)
    \/ \E t \in Threads, k \in Keys : NoIoError /\ KvsEngine_remove(t, k)
    \/ \E t \in Threads : NoIoError /\ KvsEngine_remove_lock(t)
    \/ \E t \in Threads : NoIoError /\ KvsWriter_remove_entry(t)
    \/ \E t \in Threads : NoIoError /\ KvsWriter_compact_entry(t)
    \/ \E t \in Threads : NoIoError /\ KvsWriter_compact_flush(t)
    \/ \E t \in Threads : NoIoError /\ KvsWriter_compact_unlink(t)
    \/ \E k \in Keys : NoIoError /\ KvStore_get(k)
    \/ \E k \in Keys, v \in Values : NoIoError /\ KvStore_set(k, v)
    \/ \E k \in Keys : NoIoError /\ KvStore_remove(k)
    \/ NoIoError /\ KvStore_compact
    \/ \E t \in Threads, k \in Keys, v \in Values : KvsEngine_set_io_error(t, k, v)
    \/ \E t \in Threads : KvsEngine_remove_io_error(t)
    \/ \E t \in Threads : KvsWriter_compact_io_error(t)
    \/ \E k \in Keys, v \in Values : KvStore_set_io_error(k, v)
    \/ \E k \in Keys : KvStore_remove_io_error(k)
    \/ KvStore_compact_io_error

SpecIo == InitSolo /\ [][NextIo]_vars

\* ------------------------------------------------------------ project 3: Server
\* The wire of one connection carries requests (Request::Get, Set, Remove)
\* and, from a client that does not keep to the protocol, bytes that decode
\* to no request.
RequestKinds == {"Get", "Set", "Remove"}
Garbage == "garbage"

\* The response type that send_resp! serializes for a request of kind k.
RespKind(k) ==
    CASE k = "Get" -> "GetResp"
      [] k = "Set" -> "SetResp"
      [] k = "Remove" -> "RemoveResp"

\* A match that answers Ok whatever the engine returned.
Resp_ok(k, ret) == [kind |-> RespKind(k), tag |-> "Ok"]

\* The match on the engine's result: Ok(..) or Err(format!("{}", e)).
Resp(k, ret) ==
    [kind |-> RespKind(k), tag |-> IF ret.tag \in {"Ok", "Some", "None"} THEN "Ok" ELSE "Err"]

\* BufWriter::flush on the stream: the buffered responses go to the wire.
\* (A writer that keeps them.)
flush_kept(buf, out) == [buf |-> buf, out |-> out]

flush(buf, out) == [buf |-> <<>>, out |-> out \o buf]

\* handle_client returns an error (req?, to_writer(..)?, flush()?): writer
\* and stream are dropped, and with them what the client has sent and the
\* server has not read; Server::run logs the error (error!) and goes on with
\* its loop.  (A handle_client that goes on with the stream.)
handle_client_skip(srv) ==
    [srv EXCEPT !.pc = "decode", !.inbox = IF @ = <<>> THEN @ ELSE Tail(@)]

handle_client_err(srv) ==
    [srv EXCEPT !.pc = "closed", !.inbox = <<>>, !.logged = @ + 1,
                !.out = flush(srv.buf, @).out, !.buf = <<>>]

engine_vars == <<map, impl, solo, io_errors, compact_id, opened, store_vars, lock, poisoned,
                 pc, call, latest, snap, main, dir, log>>

\* Server::run is at listener.incoming(): at its start, or handle_client has
\* returned.  (A server that accepts while it serves a connection.)
run_ready_always(srv) == srv.pc # "crashed"

run_ready(srv) == srv.pc \in {"accept", "closed"}

\* Server::run, listener.incoming() yields a stream and handle_client starts
\* on it: the connection that waits longest in the listener's queue, or,
\* when none waits, that of a client that connects now (MaxConns times at
\* most).
Server_run ==
    /\ run_ready(server)
    /\ IF server.waiting # <<>>
       THEN server' = [NoServer EXCEPT
                         !.pc = "decode", !.conn = server.conn + 1,
                         !.inbox = Head(server.waiting).inbox,
                         !.eof = Head(server.waiting).eof,
                         !.waiting = Tail(server.waiting),
                         !.joined = server.joined,
                         !.logged = server.logged]
       ELSE /\ server.conn < MaxConns
            /\ server' = [NoServer EXCEPT !.pc = "decode", !.conn = server.conn + 1,
                                          !.joined = server.joined,
                                          !.logged = server.logged]
    /\ UNCHANGED <<engine_vars, res>>

\* The client writes a request, or garbage, to the stream: at most
\* MaxRequests on a connection, at most MaxPending ahead of the server.
Client_send(kind) ==
    /\ server.pc \notin {"accept", "closed", "crashed"} /\ ~server.eof
    /\ Len(server.inbox) < MaxPending
    /\ Len(server.inbox) + Len(server.decoded) < MaxRequests
    /\ server' = [server EXCEPT !.inbox = Append(@, kind)]
    /\ UNCHANGED <<engine_vars, res>>

\* The client closes its end of the stream.
Client_close ==
    /\ server.pc \notin {"accept", "closed", "crashed"} /\ ~server.eof
    /\ server' = [server EXCEPT !.eof = TRUE]
    /\ UNCHANGED <<engine_vars, res>>

\* handle_client, `for req in reqs` and `req?`: the next request of the
\* stream is decoded; the loop ends at the end of the stream (Ok) and at
\* bytes that decode to no request (Err); in both cases handle_client
\* returns and drops writer and stream.
handle_client_decode ==
    /\ server.pc = "decode"
    /\ IF server.inbox = <<>>
       THEN /\ server.eof
            /\ server' = [server EXCEPT !.pc = "closed"]
       ELSE IF Head(server.inbox) = Garbage
       THEN server' = handle_client_err(server)
       ELSE \E k \in Keys, v \in Values :
               server' = [server EXCEPT
                            !.pc = "dispatch",
                            !.inbox = Tail(@),
                            !.decoded = Append(@, Head(server.inbox)),
                            !.req = [op |-> Head(server.inbox), key |-> k,
                                     value |-> IF Head(server.inbox) = "Set"
                                               THEN v ELSE <<>>]]
    /\ UNCHANGED <<engine_vars, res>>

\* handle_client is at the call of the engine for the request op(k, v).
handle_client_calls(op, k, v) ==
    /\ server.pc = "dispatch"
    /\ res[MainThread].op = "none"
    /\ server.req = [op |-> op, key |-> k, value |-> v]

\* send_resp!, serde_json::to_writer(&mut writer, &resp)?: the response to
\* the engine's result is in the BufWriter.  A panic of the engine ends the
\* server.
send_resp_to_writer ==
    /\ server.pc = "dispatch"
    /\ res[MainThread].op # "none"
    /\ IF res[MainThread].ret = Panic
       THEN server' = [server EXCEPT !.pc = "crashed"]
       ELSE server' = [server EXCEPT
                         !.pc = "flush",
                         !.buf = Append(@, Resp(server.req.op, res[MainThread].ret))]
    /\ NoReturn
    /\ UNCHANGED engine_vars

\* send_resp!, writer.flush()?.
send_resp_flush ==
    /\ server.pc = "flush"
    /\ LET f == flush(server.buf, server.out) IN
         server' = [server EXCEPT !.pc = "decode", !.buf = f.buf, !.out = f.out]
    /\ UNCHANGED <<engine_vars, res>>

\* The server of project 3 over its KvStore, and its clients, one connection
\* after the other.
NextServer ==
    \/ Server_run
    \/ \E kind \in RequestKinds \cup {Garbage} : Client_send(kind)
    \/ Client_close
    \/ handle_client_decode
    \/ \E k \in Keys : handle_client_calls("Get", k, <<>>) /\ KvStore_get(k)
    \/ \E k \in Keys, v \in Values : handle_client_calls("Set", k, v) /\ KvStore_set(k, v)
    \/ \E k \in Keys : handle_client_calls("Remove", k, <<>>) /\ KvStore_remove(k)
    \/ server.pc = "dispatch" /\ KvStore_compact
    \/ send_resp_to_writer
    \/ send_resp_flush

InitServer == impl = "p3" /\ solo = TRUE /\ Opened

SpecServer == InitServer /\ [][NextServer]_vars

\* ------------------------------------------------------------ the listener's queue
\* The clients that connect while the server is busy or idle, once each;
\* their connections wait in the queue of the listener.
LaterClients == {"c2"}

Client_connect(c) ==
    /\ c \notin server.joined /\ server.pc # "crashed"
    /\ server' = [server EXCEPT
                     !.joined = @ \cup {c},
                     !.waiting = Append(@, [inbox |-> <<>>, eof |-> FALSE])]
    /\ UNCHANGED <<engine_vars, res>>

\* The client of the i-th waiting connection writes a request, or garbage.
Client_send_ahead(i, kind) ==
    /\ i \in 1..Len(server.waiting) /\ server.pc # "crashed"
    /\ ~server.waiting[i].eof
    /\ Len(server.waiting[i].inbox) < Min(MaxPending, MaxRequests)
    /\ server' = [server EXCEPT !.waiting[i].inbox = Append(@, kind)]
    /\ UNCHANGED <<engine_vars, res>>

\* The client of the i-th waiting connection closes its end.
Client_close_ahead(i) ==
    /\ i \in 1..Len(server.waiting) /\ server.pc # "crashed"
    /\ ~server.waiting[i].eof
    /\ server' = [server EXCEPT !.waiting[i].eof = TRUE]
    /\ UNCHANGED <<engine_vars, res>>

\* send_resp!, to_writer(..)? or flush()? returns an I/O error of the
\* stream: handle_client returns it, Server::run logs it.
send_resp_io_error ==
    /\ \/ server.pc = "flush"
       \/ server.pc = "dispatch" /\ res[MainThread].op # "none"
                                 /\ res[MainThread].ret # Panic
    /\ io_error
    /\ server' = [handle_client_err(server) EXCEPT !.out = server.out]
    /\ NoReturn
    /\ UNCHANGED <<map, impl, solo, compact_id, opened, store_vars, lock, poisoned, pc, call,
                   latest, snap, main, dir, log>>

\* The server, the clients it serves and the clients that wait, with I/O
\* errors of the streams.
NextListener ==
    \/ NextServer
    \/ \E c \in LaterClients : Client_connect(c)
    \/ \E i \in 1..Cardinality(LaterClients), kind \in RequestKinds \cup {Garbage} :
          Client_send_ahead(i, kind)
    \/ \E i \in 1..Cardinality(LaterClients) : Client_close_ahead(i)
    \/ send_resp_io_error

SpecListener == InitServer /\ [][NextListener]_vars

\* ------------------------------------------------------------ sanity
\* ------------------------------------------------------------ kvs-server, main
\* The values of --engine (value_parser(["kvs", "sled"])).
Engines == {"kvs", "sled"}

\* The process ends with exit code c.
exit(c) ==
    main' = [main EXCEPT !.pc = "exited", !.code = c,
                         !.runs = Append(@, <<main.arg, c>>)]

\* kvs-server is started in the directory, with --engine arg or without the
\* option (MaxStarts times at most).
main_start(arg) ==
    /\ main.pc = "exited" /\ Len(main.runs) < MaxStarts
    /\ main' = [NoMain EXCEPT !.pc = "current_engine", !.arg = arg, !.runs = main.runs]
    /\ UNCHANGED <<map, log, dir, server, res, impl, solo, io_errors, compact_id, opened,
                   store_vars, lock, poisoned, pc, call, latest, snap>>

\* current_engine(): the content of the engine file, if there is one.
current_engine ==
    /\ main.pc = "current_engine"
    /\ main' = [main EXCEPT !.pc = "config", !.curr = dir.engine]
    /\ UNCHANGED <<map, log, dir, server, res, impl, solo, io_errors, compact_id, opened,
                   store_vars, lock, poisoned, pc, call, latest, snap>>

\* main, `if engine.is_none() { engine = curr_engine.as_ref(); }`.
main_engine(arg, curr) == IF arg = NoEngine THEN curr ELSE arg

\* (A main that takes any engine.)
mismatched_never(engine, curr) == FALSE

\* main, `curr_engine.is_some() && engine != curr_engine.as_ref()`.
mismatched(engine, curr) == curr # NoEngine /\ engine # curr

\* main, the closure on the result of current_engine(): exit(1) on a
\* mismatch, a panic of engine.unwrap() when there is neither an option nor an
\* engine file, run(engine, ip_port) otherwise.
main_config ==
    /\ main.pc = "config"
    /\ LET engine == main_engine(main.arg, main.curr) IN
         IF mismatched(engine, main.curr) THEN exit(1)
         ELSE IF engine = NoEngine THEN exit(101)
         ELSE main' = [main EXCEPT !.pc = "run", !.engine = engine]
    /\ UNCHANGED <<map, log, dir, server, res, impl, solo, io_errors, compact_id, opened,
                   store_vars, lock, poisoned, pc, call, latest, snap>>

\* run, fs::write(current_dir.join("engine"), format!("{}", engine))?.
run_write ==
    /\ main.pc = "run"
    /\ dir' = [dir EXCEPT !.engine = main.engine]
    /\ main' = [main EXCEPT !.pc = "open"]
    /\ UNCHANGED <<map, log, server, res, impl, solo, io_errors, compact_id, opened,
                   store_vars, lock, poisoned, pc, call, latest, snap>>

\* run, `match engine`: the store of the engine is opened in the directory,
\* which creates its files, and the server runs on it.
run_open ==
    /\ main.pc = "open"
    /\ dir' = [dir EXCEPT !.stores = @ \cup {main.engine}]
    /\ main' = [main EXCEPT !.pc = "serving"]
    /\ UNCHANGED <<map, log, server, res, impl, solo, io_errors, compact_id, opened,
                   store_vars, lock, poisoned, pc, call, latest, snap>>

\* The serving process is terminated (Server::run has no other end).
main_killed ==
    /\ main.pc = "serving"
    /\ exit(143)
    /\ UNCHANGED <<map, log, dir, server, res, impl, solo, io_errors, compact_id, opened,
                   store_vars, lock, poisoned, pc, call, latest, snap>>

\* The starts of kvs-server in one directory, one after the other.
NextMain ==
    \/ \E arg \in Engines \cup {NoEngine} : main_start(arg)
    \/ current_engine
    \/ main_config
    \/ run_write
    \/ run_open
    \/ main_killed

SpecMain == InitServer /\ [][NextMain]_vars

\* ------------------------------------------------------------ one log file
\* The variables of the stores, of the server and of kvs-server.
program_vars == <<map, main, dir, server, res, impl, solo, io_errors, compact_id, opened,
                  store_vars, lock, poisoned, pc, call, latest, snap>>

\* The records written to the file: values may be empty.
LogValues == Values \cup {<<>>}
LogCmds == {Cmd_Set(k, v) : k \in Keys, v \in LogValues} \cup {Cmd_Remove(k) : k \in Keys}

\* BufReader::read of at most n bytes by a reader r = [buf: bytes read from
\* the file and not yet handed out, off: offset of the file handle]: from the
\* buffer when it holds bytes; else the buffer is filled from the file first,
\* or, for n of the capacity or more, the file is read directly.
BufReader_read(r, content, n) ==
    IF r.buf # <<>>
    THEN LET len == Min(n, Len(r.buf))
         IN [r |-> [buf |-> SubSeq(r.buf, len + 1, Len(r.buf)), off |-> r.off],
             bytes |-> SubSeq(r.buf, 1, len)]
    ELSE LET got == SubSeq(content, r.off + 1,
                           Min(r.off + (IF n >= BufReaderCapacity THEN n
                                        ELSE BufReaderCapacity), Len(content)))
             len == Min(n, Len(got))
         IN [r |-> [buf |-> SubSeq(got, len + 1, Len(got)), off |-> r.off + Len(got)],
             bytes |-> SubSeq(got, 1, len)]

\* BufReaderWithPos::read: self.pos += len.
BufReaderWithPos_read(l, n) ==
    LET rd == BufReader_read(l.r, l.content, n)
    IN [l EXCEPT !.r = rd.r, !.rpos = @ + Len(rd.bytes)]

\* Reads until n bytes are read or the file ends (read_exact, io::copy of a
\* Take, the byte-wise reads of serde_json).
RECURSIVE read_n(_, _)
read_n(l, n) ==
    IF n = 0 \/ (l.r.buf = <<>> /\ l.r.off >= Len(l.content))
    THEN l
    ELSE LET m == BufReaderWithPos_read(l, n) IN read_n(m, n - (m.rpos - l.rpos))

\* BufReaderWithPos::seek(SeekFrom::Start(p)): BufReader::seek drops the
\* buffer and moves the file handle.
BufReaderWithPos_seek(l, p) ==
    [l EXCEPT !.r = [buf |-> <<>>, off |-> p], !.rpos = p]

\* (A write that leaves pos where it is.)
BufWriterWithPos_write_still(l, bytes) ==
    LET wr == BufWriter_write(l.w, l.content, bytes)
    IN [l EXCEPT !.w = wr.w, !.content = wr.content]

\* BufWriterWithPos::write: self.pos += len.
BufWriterWithPos_write(l, bytes) ==
    LET wr == BufWriter_write(l.w, l.content, bytes)
    IN [l EXCEPT !.w = wr.w, !.content = wr.content, !.wpos = @ + Len(bytes)]

\* BufWriterWithPos::flush.
BufWriterWithPos_flush(l) ==
    LET f == BufWriter_flush(l.w, l.content)
    IN [l EXCEPT !.w = f.w, !.content = f.content]

\* `let pos = self.writer.pos; serde_json::to_writer(&mut self.writer, &cmd)`
\* of set and remove, the io::copy of compact: one record is written, and the
\* pos before and after it are taken (MaxRecords records at most).
Log_write(cmd) ==
    /\ log.pc = "write"
    /\ Len(log.written) + Len(log.pending) < MaxRecords
    /\ LET l == BufWriterWithPos_write(log, to_writer(cmd))
       IN log' = [l EXCEPT !.pending = Append(@, [cmd |-> cmd, start |-> log.wpos,
                                                   end |-> l.wpos])]
    /\ UNCHANGED program_vars

\* self.writer.flush() of set and remove, compact_writer.flush() of compact:
\* the records written since the last flush are in the file.
Log_flush ==
    /\ log.pc = "write" /\ log.pending # <<>>
    /\ log' = [BufWriterWithPos_flush(log) EXCEPT !.pending = <<>>,
                                                  !.written = log.written \o log.pending]
    /\ UNCHANGED program_vars

\* KvsReader::read of a record that is in the file: seek to its start, take
\* its length, from_reader.
Log_read(i) ==
    /\ log.pc = "write" /\ i \in 1..Len(log.written)
    /\ LET e == log.written[i]
           l == read_n(BufReaderWithPos_seek(log, e.start), e.end - e.start)
       IN log' = [l EXCEPT !.decoded =
                     <<from_reader(SubSeq(log.content, e.start + 1, l.rpos))>>]
    /\ UNCHANGED program_vars

\* The store is closed, which flushes the writer (BufWriter's drop), and
\* opened again: load_log seeks its reader to the start of the file.
Log_open ==
    /\ log.pc = "write" /\ log.written \o log.pending # <<>>
    /\ log' = [BufReaderWithPos_seek(BufWriterWithPos_flush(log), 0) EXCEPT
                 !.pc = "load", !.posi = 0, !.decoded = <<>>,
                 !.pending = <<>>, !.written = log.written \o log.pending]
    /\ UNCHANGED program_vars

\* load_log, one turn of `while let Some(cmd) = stream.next()`: the next
\* record of the stream and stream.byte_offset() after it.
Log_load ==
    /\ log.pc = "load" /\ ~log.failed
    /\ log.posi < Len(log.content)
    /\ LET p == ParseCmd(SubSeq(log.content, log.posi + 1, Len(log.content)))
           new_pos == log.posi + p.end
       IN IF p.ok
          THEN log' = [read_n(log, new_pos - log.rpos) EXCEPT
                         !.posi = new_pos,
                         !.decoded = Append(@, [cmd |-> p.cmd, start |-> log.posi,
                                                end |-> new_pos])]
          ELSE log' = [log EXCEPT !.failed = TRUE]
    /\ UNCHANGED program_vars

\* A log file that is written, read, and replayed at the next open.
NextLog ==
    \/ \E cmd \in LogCmds : Log_write(cmd)
    \/ Log_flush
    \/ \E i \in 1..MaxRecords : Log_read(i)
    \/ Log_open
    \/ Log_load

SpecLog == InitServer /\ [][NextLog]_vars

\* ------------------------------------------------------------ KvsReader alone
\* A KvsReader with readers of the log files ids in its cache and any check
\* point, over a key_dir with both keys: key a in file fa, key b after it in
\* file fb.
InitReader ==
    /\ impl = "p4" /\ solo = TRUE /\ opened = TRUE
    /\ \E ids \in SUBSET (1..MaxFileId) \ {{}}, va \in Values, vb \in Values :
         \E fa \in ids, fb \in ids :
            LET a == to_writer(Cmd_Set("a", va))
                b == to_writer(Cmd_Set("b", vb))
                at == IF fa = fb THEN Len(a) ELSE 0
            IN /\ files = [f \in ids \cup {MaxFileId + 1} |->
                             (IF f = fa THEN a ELSE <<>>) \o (IF f = fb THEN b ELSE <<>>)]
               /\ key_dir = KeyDirInsert(KeyDirInsert(Empty, "a", CmdPos(fa, 0, Len(a))),
                                         "b", CmdPos(fb, at, at + Len(b)))
               /\ readers = ids
               /\ latest = [k \in Keys |-> Some(IF k = "a" THEN va ELSE vb)]
    /\ check_point \in 0..(MaxFileId + 1)
    /\ uncompact = 0
    /\ current_file_id = MaxFileId + 1
    /\ NoCalls

\* The gets of one thread through the KvsReader.
NextReader ==
    \/ \E t \in Threads, k \in Keys : KvsEngine_get(t, k)
    \/ \E t \in Threads : KvsReader_read(t)

SpecReader == InitReader /\ [][NextReader]_vars

\* ------------------------------------------------------------ a killed process
\* The length of the longest record of the model's keys and values.
MaxRecordLen == Len(to_writer(Cmd_Set("a", <<"y", "y">>)))

\* The process is killed while set or remove appends the record of cmd: the
\* first n bytes of the record, not all of it, are in the active file, and the
\* engine is gone.
Killed(cmd, n) ==
    /\ opened /\ \A t \in Threads : pc[t] = "idle"
    /\ current_file_id < FileIdLimit
    /\ cmd.op = "Remove" => cmd.key \in DOMAIN key_dir
    /\ n \in 1..(Len(to_writer(cmd)) - 1)
    /\ files' = Put(files, current_file_id,
                    WriteAt(files[current_file_id], writer_pos,
                            SubSeq(to_writer(cmd), 1, n)))
    /\ writer_pos' = writer_pos + n
    /\ opened' = FALSE
    /\ key_dir' = Empty
    /\ readers' = {}
    /\ uncompact' = 0
    /\ compact_id' = 0
    /\ NoReturn
    /\ UNCHANGED <<map, log, main, dir, server, impl, solo, io_errors, check_point,
                   current_file_id, compacting, lock, poisoned, pc, call, latest, snap>>

\* The calls of one thread on a store whose process may be killed in an
\* append, and the opens of its directory.
NextCrash ==
    \/ Next
    \/ \E k \in Keys, v \in Values, n \in 1..MaxRecordLen : Killed(Cmd_Set(k, v), n)
    \/ \E k \in Keys, n \in 1..MaxRecordLen : Killed(Cmd_Remove(k), n)

SpecCrash == InitSolo /\ [][NextCrash]_vars

TypeOK ==
    /\ impl \in {"p3", "p4"}
    /\ DOMAIN key_dir \subseteq Keys
    /\ readers \subseteq DOMAIN files
    /\ current_file_id \in DOMAIN files
    /\ writer_pos = Len(files[current_file_id])
    /\ lock \in Threads \cup {NoThread}

\* ------------------------------------------------------------ properties
\* The calls that returned in the last step.
Gets == {res[t] : t \in {u \in Threads : res[u].op = "get"}}
Removes == {res[t] : t \in {u \in Threads : res[u].op = "rm"}}

\* Some file holds a Remove record of key k.
HasRemoveRecord(k) ==
    \E f \in DOMAIN files : \E i \in 1..(Len(files[f]) - 1) :
        files[f][i] = "{R" /\ files[f][i + 1] = k

\* C1: a get(k) that follows a set(k, v), with no set or remove of k after it
\* (and no call running beside the get), returns Some(v): it returns no
\* error and does not abort, however many compactions have run.
C1_GetAfterSet ==
    \A r \in Gets :
        (r.ovl = {} /\ \E v \in Values : r.wide = {Some(v)}) => r.ret \in r.wide

\* C2: when key k is absent (it was removed, or never set) and no mutation
\* in progress may set it, get(k) returns None and remove(k) returns the
\* error KeyNotFound; an absent key has no entry in the key directory.
C2_AbsentKey ==
    /\ \A r \in Gets : r.wide = {None} => r.ret = None
    /\ \A r \in Removes : r.wide = {None} => r.ret = Err("KeyNotFound")
    /\ \A k \in Keys : latest[k] = None => k \notin DOMAIN key_dir

\* A remove(k) has just returned KeyNotFound for a key k that was set and
\* removed before (a log file holds its Remove record).
C2_Witness ==
    \E r \in Removes :
        /\ r.wide = {None} /\ r.ret = Err("KeyNotFound")
        /\ HasRemoveRecord(r.key)

\* C3: closing the store and opening the directory again changes the result
\* of get(k) for no key k.
C3_ReopenKeepsGet ==
    [][(Reopen /\ ~poisoned) => \A k \in Keys : GetValue(k)' = GetValue(k)]_vars

\* The step in which a compact() that ran to its end returns.
CompactDone ==
    \E t \in Threads :
        /\ pc[t] \in {"compact_unlink", "p3_compact"}
        /\ pc'[t] = "idle"
        /\ res'[t].ret = Ok

\* C4: compact() keeps the keys of the key directory, and get returns for
\* each of them after the compaction what it returned before it.
C4_CompactKeepsGet ==
    [][CompactDone =>
          /\ DOMAIN key_dir' = {k \in Keys : snap[k] # None}
          /\ \A k \in Keys : GetValue(k)' = snap[k]]_vars

\* The entry e of key k designates bytes that are in its file and decode to
\* exactly one Set record of key k.
EntryOnDisk(k, e) ==
    /\ e.file_id \in DOMAIN files
    /\ e.kv_pos + e.len <= Len(files[e.file_id])
    /\ LET p == from_reader(SubSeq(files[e.file_id], e.kv_pos + 1, e.kv_pos + e.len))
       IN p.ok /\ p.cmd.op = "Set" /\ p.cmd.key = k

\* C5: in every state, each entry of the key directory designates bytes that
\* are in its file on disk and decode to one Set record of the entry's key.
C5_EntriesOnDisk ==
    \A k \in DOMAIN key_dir : EntryOnDisk(k, key_dir[k])

\* C6: a get(k) that ran while another thread made sets of other keys (and
\* nothing else) returns the latest value of k, no error and no abort.
C6_GetBesideOtherSets ==
    \A r \in Gets :
        r.ovl = {"set_other"} => r.ret = latest[r.key] /\ r.ret.tag \in {"Some", "None"}

\* C7: a get(k) that ran while another thread set k to v2 over v1 returns
\* Some(v1) or Some(v2).
C7_GetBesideSameSet ==
    \A r \in Gets :
        (Cardinality(r.wide) = 2 /\ None \notin r.wide) => r.ret \in r.wide

\* C8: a get of the shared engine returns a value that its key had when the
\* get started or got later: it observes every mutation that returned before
\* it started.
C8_GetSeesReturnedMutations ==
    impl = "p4" => \A r \in Gets : r.ret \in r.wide

\* Thread t is in the body of a mutation: between the lock of the writer
\* mutex and its release.
InBody(t) == pc[t] \in {"set_insert", "rm_remove", "compact_iter", "compact_unlink"}

\* C9: at most one thread at a time is in the body of a mutation (append,
\* key directory update, accounting, compaction), and it holds the mutex.
C9_OneWriter ==
    \A t \in Threads :
        InBody(t) => lock = t /\ \A u \in Threads \ {t} : ~InBody(u)

\* A thread compacts inside its mutation while the other waits for the mutex.
C9_Witness ==
    \E t \in Threads, u \in Threads :
        pc[t] = "compact_iter" /\ pc[u] = "rm_lock" /\ lock = t

\* C10: of two remove(k) that ran at the same time and both found k present,
\* one returns Ok and the other KeyNotFound, none aborts, and exactly one of
\* them appended a Remove record.
C10_ConcurrentRemoves ==
    \A r \in Removes : \A p \in r.peer :
        /\ {r.ret, p.ret} = {Ok, Err("KeyNotFound")}
        /\ r.appended # p.appended

\* C11: when a compact() of the shared engine returns, check_point equals the
\* id of its compaction file (the active file id minus one), and check_point
\* never decreases.
C11_CheckPointPublished ==
    [][/\ (CompactDone /\ impl = "p4") => check_point' = current_file_id' - 1
       /\ (~Reopen) => check_point' >= check_point]_vars

\* C12: once this process has completed a compaction with id compact_id,
\* every entry of the key directory, and so the entry every get reads
\* through, names a file whose id is at least compact_id and at least the
\* check point.
C12_NoFileBelowCompactId ==
    compact_id > 0 =>
        /\ \A k \in DOMAIN key_dir :
              key_dir[k].file_id >= compact_id /\ key_dir[k].file_id >= check_point
        /\ \A t \in Threads :
              pc[t] = "read" => key_dir[call[t].key].file_id >= compact_id

\* After a compaction, a get has returned a value that it read from a file
\* whose id is not below the compaction's.
C12_Witness ==
    /\ compact_id > 0
    /\ \E r \in Gets :
          /\ r.ret.tag = "Some"
          /\ r.key \in DOMAIN key_dir /\ key_dir[r.key].file_id >= compact_id

\* No compact() is running.
NoCompaction ==
    \A t \in Threads : pc[t] \notin {"compact_iter", "compact_unlink", "p3_compact"}

\* C13: a get whose entry names a file without a cached reader (after a
\* compaction: the compaction file, the new active file) returns the value:
\* no get aborts, and a get of such a key would return Some.
C13_MissingReaderOpened ==
    /\ \A r \in Gets : r.ret # Panic
    /\ NoCompaction =>
          \A k \in DOMAIN key_dir :
              key_dir[k].file_id \notin readers => GetValue(k).tag = "Some"

RECURSIVE Sum(_, _)
Sum(fn, S) ==
    IF S = {} THEN 0
    ELSE LET x == CHOOSE y \in S : TRUE IN fn[x] + Sum(fn, S \ {x})

\* The bytes of all log files, and those of them the key directory names.
TotalBytes == Sum([f \in DOMAIN files |-> Len(files[f])], DOMAIN files)
LiveBytes == Sum([k \in DOMAIN key_dir |-> key_dir[k].len], DOMAIN key_dir)

\* The step in which a remove takes key k out of the key directory, and the
\* one in which a set enters k's record of the active file into it.
RemoveApplied(k) == ~Reopen /\ k \in DOMAIN key_dir /\ k \notin DOMAIN key_dir'
SetApplied(k) ==
    /\ ~Reopen
    /\ k \in DOMAIN key_dir' /\ key_dir'[k].file_id = current_file_id
    /\ (k \in DOMAIN key_dir => key_dir[k] # key_dir'[k])

\* No call is running and the store is usable.
Quiescent == opened /\ ~poisoned /\ \A t \in Threads : pc[t] = "idle"

\* C15: a remove(k) adds to uncompact the length of the entry it displaces
\* plus the length of the Remove record it appended; a set adds the length
\* of the entry it displaces, nothing for a new key; so between calls
\* uncompact is the number of log bytes the key directory does not name.
C15_UncompactAccounting ==
    [][/\ \A k \in Keys :
            /\ RemoveApplied(k) =>
                  uncompact' = uncompact + key_dir[k].len + Len(to_writer(Cmd_Remove(k)))
            /\ SetApplied(k) =>
                  uncompact' = uncompact + (IF k \in DOMAIN key_dir THEN key_dir[k].len ELSE 0)
       /\ Quiescent' => uncompact' = TotalBytes' - LiveBytes']_vars

\* C16: the end of a set or remove runs compact() exactly when uncompact,
\* after the call's accounting, has reached COMPACT_THRESHOLD; a compact()
\* that returns leaves uncompact at 0; so a set or remove that returns Ok
\* leaves uncompact below COMPACT_THRESHOLD.
C16_CompactAtThreshold ==
    [][/\ \A k \in Keys :
            (SetApplied(k) \/ RemoveApplied(k)) =>
                (~NoCompaction' <=> uncompact' >= COMPACT_THRESHOLD)
       /\ CompactDone => uncompact' = 0
       /\ \A t \in Threads :
            (res'[t].op \in {"set", "rm"} /\ res'[t].ret = Ok) =>
                uncompact' < COMPACT_THRESHOLD]_vars

\* A set or remove has just returned Ok from the compaction it ran: the
\* compaction file is the file below the active one, which is still empty.
C16_Witness ==
    /\ \E t \in Threads : res[t].op \in {"set", "rm"} /\ res[t].ret = Ok
    /\ compact_id = current_file_id - 1 /\ writer_pos = 0
    /\ uncompact = 0 /\ key_dir # Empty

\* C17: when a compact() returns, the log files hold the bytes of the key
\* directory's entries and nothing else; so between calls the log files
\* never hold more than the live bytes plus COMPACT_THRESHOLD plus one
\* record.
C17_LogSizeBounded ==
    [][/\ CompactDone => TotalBytes' = LiveBytes'
       /\ Quiescent' => TotalBytes' <= LiveBytes' + COMPACT_THRESHOLD + MaxRecordLen]_vars

\* The step in which compact() takes its file ids and creates its files.
CompactBegun ==
    \/ impl = "p4" /\ NoCompaction /\ ~NoCompaction'
    \/ impl = "p3" /\ pc[MainThread] = "p3_compact"

\* The greatest id of the set S of file ids.
MaxId(S) == CHOOSE m \in S : \A o \in S : o <= m

\* C18: the active file id never decreases: open takes the greatest id on
\* disk plus one (1 in an empty directory), compact() takes the active id
\* plus one for the compaction file and plus two for the new active file,
\* both created empty; the active file has the greatest id on disk; and
\* outside compact() only the active file is written, which holds no
\* compacted record.
C18_FileIdsGrow ==
    /\ current_file_id = 1 /\ DOMAIN files = {1}
    /\ [][/\ current_file_id' >= current_file_id
          /\ Reopen => current_file_id' = MaxId(DOMAIN files) + 1
          /\ CompactBegun =>
                /\ current_file_id' = current_file_id + 2
                /\ current_file_id + 1 \in DOMAIN files'
                /\ current_file_id + 1 \notin DOMAIN files
                /\ files'[current_file_id'] = <<>>
          /\ \A f \in DOMAIN files' \ {current_file_id'} : f < current_file_id'
          /\ \A f \in DOMAIN files \cap DOMAIN files' :
                (NoCompaction /\ files'[f] # files[f]) =>
                    /\ f = current_file_id
                    /\ f # compact_id]_vars

\* The directory of a completed compaction was opened again: the new active
\* file is empty, two above the compaction file that holds a live record.
C18_Witness ==
    /\ Quiescent /\ compact_id = 0
    /\ Cardinality(DOMAIN files) = 3 /\ 1 \notin DOMAIN files
    /\ files[current_file_id] = <<>>
    /\ \E k \in DOMAIN key_dir : key_dir[k].file_id = current_file_id - 2

\* Thread t returns an I/O error from a set or remove in this step.
IoError(t) == res'[t].op \in {"set", "rm"} /\ res'[t].ret = Err("Io")

\* What get(k) returned before the call that thread t is about to return
\* from: the call has not touched the key directory when it fails at its
\* append; in its compaction, its own key had the value it has seen and the
\* other keys the values they had when the compaction started.
Before(t, k) ==
    IF pc[t] \in {"idle", "rm_lock"} THEN GetValue(k)
    ELSE IF k = call[t].key THEN CHOOSE v \in call[t].seen : TRUE
    ELSE snap[k]

\* C19: when a set or remove returns an I/O error, from its append or from
\* the compaction it ran, get returns for every key what it returned before
\* the call.
C19_ErrorKeepsKeyDir ==
    [][\A t \in Threads :
          IoError(t) => \A k \in Keys : GetValue(k)' = Before(t, k)]_vars

\* The responses handle_client has serialized on this connection, in order.
Responses == server.out \o server.buf

\* C20: on a connection, the server has written one response for each
\* request it decoded, except the one it is working on; the responses are in
\* the order of the requests, each of the type of its request; and when the
\* server decodes the next request, every response has been flushed.
C20_OneResponsePerRequest ==
    /\ server.pc # "crashed"
    /\ Len(Responses) \in {Len(server.decoded) - 1, Len(server.decoded)}
    /\ \A i \in 1..Len(Responses) :
          <<server.decoded[i], Responses[i].kind>> \in
              {<<"Get", "GetResp">>, <<"Set", "SetResp">>, <<"Remove", "RemoveResp">>}
    /\ server.pc \in {"decode", "closed"} =>
          server.buf = <<>> /\ Len(server.out) = Len(server.decoded)

\* The server has answered a Set and then a Get on one connection, and both
\* responses are on the wire.
C20_Witness ==
    /\ server.pc = "decode" /\ server.buf = <<>>
    /\ server.decoded = <<"Set", "Get">>
    /\ server.out = <<[kind |-> "SetResp", tag |-> "Ok"], [kind |-> "GetResp", tag |-> "Ok"]>>

\* Client::get / set / remove, the match on the response: Ok(v) is the
\* call's value, Err(e) becomes Err(KvsError::StringErr(e)).
Client_result(resp) == IF resp.tag = "Ok" THEN Ok ELSE Err("StringErr")

\* handle_client has the engine's result for the request it dispatched, and
\* the result is an error.
EngineError ==
    /\ server.pc = "dispatch"
    /\ res[MainThread].op # "none" /\ res[MainThread].ret.tag = "Err"

\* C21: when the engine returns an error for a request, the server
\* serializes the Err variant of the response type of the request, which the
\* client returns as an error; the connection stays open with its pending
\* requests, and a connection ends only at the end of its stream or at bytes
\* that decode to no request.
C21_EngineErrorReplied ==
    [][/\ (EngineError /\ server'.pc # "dispatch") =>
            /\ server'.pc = "flush"
            /\ server'.inbox = server.inbox /\ server'.eof = server.eof
            /\ Len(server'.buf) = Len(server.buf) + 1
            /\ LET r == server'.buf[Len(server'.buf)] IN
                 /\ r.tag = "Err"
                 /\ <<server.req.op, r.kind>> \in
                        {<<"Get", "GetResp">>, <<"Set", "SetResp">>,
                         <<"Remove", "RemoveResp">>}
                 /\ Client_result(r) = Err("StringErr")
       /\ (server.pc # "closed" /\ server'.pc = "closed") =>
            /\ server.pc = "decode"
            /\ IF server.inbox = <<>> THEN server.eof
               ELSE Head(server.inbox) = Garbage]_vars

\* The server has answered a Remove of an absent key with Err and then a Set
\* of the same connection with Ok.
C21_Witness ==
    /\ server.pc = "decode"
    /\ server.decoded = <<"Remove", "Set">>
    /\ server.out = <<[kind |-> "RemoveResp", tag |-> "Err"],
                      [kind |-> "SetResp", tag |-> "Ok"]>>

\* handle_client returns an error in this step: the next bytes of the stream
\* decode to no request, or a write to the stream fails.
HandleClientFails ==
    \/ /\ server.pc = "decode" /\ server'.pc # "decode"
       /\ server.inbox # <<>> /\ Head(server.inbox) = Garbage
    \/ io_errors' # io_errors

\* C22: a request that cannot be decoded, or an I/O error of the stream, ends
\* the handling of that connection and nothing else: what the client has sent
\* after it is dropped and no request of the connection is dispatched any
\* more, the store is what the requests dispatched before have made it, the
\* waiting connections are untouched, the error is logged, and the server is
\* back at its listener, where it accepts the next connection.
C22_ErrorEndsConnectionOnly ==
    /\ []((server.pc = "closed" /\ server.waiting # <<>>) => ENABLED Server_run)
    /\ [][/\ HandleClientFails =>
               /\ server'.pc = "closed" /\ server'.conn = server.conn
               /\ server'.inbox = <<>> /\ server'.decoded = server.decoded
               /\ server'.waiting = server.waiting
               /\ server'.logged = server.logged + 1
               /\ UNCHANGED <<opened, files, key_dir, readers, writer_pos,
                              current_file_id, uncompact>>
          /\ server.pc = "closed" =>
               \/ /\ server'.pc = "closed" /\ server'.decoded = server.decoded
                  /\ server'.inbox = <<>>
               \/ /\ server'.pc = "decode" /\ server'.conn = server.conn + 1
                  /\ server'.decoded = <<>>]_vars

\* The first connection ended at bytes that are no request, after a set that
\* was answered; the second was accepted, its set was applied and the write
\* of the response failed.
C22_Witness ==
    /\ server.conn = 2 /\ server.logged = 2 /\ io_errors = 1
    /\ server.pc = "closed" /\ server.decoded = <<"Set">>
    /\ DOMAIN key_dir = Keys

\* C23: the server serves one connection at a time: it accepts a connection
\* only when it serves none, with nothing of the connection before left to
\* read, to dispatch or to write; the request it dispatches is the next one of
\* the connection it serves, and the requests of the connections that wait
\* stay where they are until their connection is accepted.
C23_OneConnectionAtATime ==
    [][/\ server'.conn # server.conn =>
            /\ server'.conn = server.conn + 1
            /\ server.pc \in {"accept", "closed"}
            /\ server.inbox = <<>> /\ server.buf = <<>>
            /\ res[MainThread].op = "none" /\ pc[MainThread] = "idle"
            /\ server'.decoded = <<>>
            /\ IF server.waiting = <<>>
               THEN server'.inbox = <<>> /\ server'.waiting = <<>>
               ELSE /\ server'.inbox = Head(server.waiting).inbox
                    /\ server'.waiting = Tail(server.waiting)
       /\ server'.decoded # server.decoded /\ server'.conn = server.conn =>
            /\ server.inbox # <<>>
            /\ server'.decoded = Append(server.decoded, Head(server.inbox))
            /\ server'.req.op = Head(server.inbox)
            /\ server'.inbox = Tail(server.inbox)
            /\ server'.waiting = server.waiting
       /\ server'.conn = server.conn =>
            /\ Len(server'.waiting) >= Len(server.waiting)
            /\ \A i \in 1..Len(server.waiting) :
                 /\ Len(server'.waiting[i].inbox) >= Len(server.waiting[i].inbox)
                 /\ SubSeq(server'.waiting[i].inbox, 1, Len(server.waiting[i].inbox))
                      = server.waiting[i].inbox]_vars

\* The first connection made two sets and ended; the connection accepted
\* after it has its first request at the engine.
C23_Witness ==
    /\ server.conn = 2 /\ server.joined = LaterClients /\ server.logged = 0
    /\ server.pc = "dispatch" /\ server.decoded = <<"Get">>
    /\ DOMAIN key_dir = Keys

\* kvs-server runs with an --engine option that is not the engine of the
\* engine file.
Mismatch ==
    /\ main.pc # "exited"
    /\ main.arg # NoEngine /\ dir.engine # NoEngine /\ main.arg # dir.engine

\* C24: over the starts of kvs-server in one directory: a start with an
\* --engine that differs from the engine file ends with a nonzero exit code
\* and writes neither the engine file nor a store; a start without the option
\* serves the engine of the engine file; a start with no engine file serves
\* the given engine and writes it to the engine file; the content of the
\* engine file, once written, never changes, and only its engine has a store.
C24_EngineMarker ==
    [][/\ Mismatch =>
            /\ dir' = dir
            /\ main'.pc \in {"config", "exited"}
            /\ main'.pc = "exited" => main'.code # 0
       /\ dir.engine # NoEngine => dir'.engine = dir.engine
       /\ (dir.engine = NoEngine /\ dir'.engine # NoEngine) =>
            /\ dir'.engine = main.arg /\ dir'.stores = {}
       /\ dir'.stores # dir.stores =>
            /\ dir.engine # NoEngine /\ dir'.stores = {dir.engine}
            /\ main.arg \in {NoEngine, dir.engine}
            /\ main'.pc = "serving"
       /\ (main.pc # "serving" /\ main'.pc = "serving") =>
            /\ dir'.stores = {dir'.engine}
            /\ main.curr \in {NoEngine, dir'.engine}
            /\ main.arg = NoEngine => main.curr = dir'.engine]_vars

\* A first start with --engine kvs that served and was terminated, a second
\* with --engine sled that exited with 1, and a third without the option,
\* which serves kvs.
C24_Witness ==
    /\ main.pc = "serving" /\ main.arg = NoEngine
    /\ main.runs = <<<<"kvs", 143>>, <<"sled", 1>>>>
    /\ dir = [engine |-> "kvs", stores |-> {"kvs"}]

\* C25: a record that is encoded and decoded is the record again, and the
\* replay of a file of records written one after the other, with nothing
\* between them, yields the same records in the same order, each with the
\* offsets taken when it was written: it starts where the record before it
\* ends, the first at 0, and ends just past its last byte.
C25_CodecRoundTrip ==
    /\ \A cmd \in LogCmds :
         from_reader(to_writer(cmd)) = [ok |-> TRUE, cmd |-> cmd, end |-> Len(to_writer(cmd))]
    /\ log.pc = "load" =>
         /\ ~log.failed
         /\ Len(log.decoded) <= Len(log.written)
         /\ \A i \in 1..Len(log.decoded) :
              /\ log.decoded[i] = log.written[i]
              /\ log.decoded[i].start = (IF i = 1 THEN 0 ELSE log.decoded[i - 1].end)
              /\ SubSeq(log.content, log.decoded[i].start + 1, log.decoded[i].end)
                   = to_writer(log.written[i].cmd)
         /\ log.posi = Len(log.content) => Len(log.decoded) = Len(log.written)

\* Three records, a Set with an empty value between a Remove and a Set,
\* written and replayed to the end of the file.
C25_Witness ==
    /\ log.pc = "load" /\ log.posi = Len(log.content)
    /\ Len(log.decoded) = 3
    /\ log.decoded[1].cmd = Cmd_Remove("a")
    /\ log.decoded[2].cmd = Cmd_Set("b", <<>>)
    /\ log.decoded[3] = [cmd |-> Cmd_Set("a", <<"y", "y">>), start |-> 6, end |-> 11]

C27_KeyNotFoundChangesNothing ==
    [][\A t \in Threads :
          (res'[t].op = "rm" /\ res'[t].ret = Err("KeyNotFound")) =>
             /\ pc[t] = "idle" /\ pc'[t] = "idle"
             /\ ~res'[t].appended
             /\ res'[t].key \notin DOMAIN key_dir
             /\ UNCHANGED <<files, writer_pos, key_dir, uncompact, current_file_id,
                            readers, compacting, compact_id, latest>>]_vars

\* A remove of key a has returned KeyNotFound in a store that holds b, after
\* a was set and removed.
C27_Witness ==
    /\ res[MainThread].op = "rm" /\ res[MainThread].key = "a"
    /\ res[MainThread].ret = Err("KeyNotFound")
    /\ DOMAIN key_dir = {"b"}
    /\ HasRemoveRecord("a")

\* The entries of the key directory kd that name file cf lie back to back
\* from offset 0 and cover size bytes.
BackToBack(kd, cf, size) ==
    LET E == {k \in DOMAIN kd : kd[k].file_id = cf} IN
    /\ \A k \in E :
         \/ kd[k].kv_pos = 0
         \/ \E j \in E \ {k} : kd[j].kv_pos + kd[j].len = kd[k].kv_pos
    /\ \A k \in E : \A j \in E \ {k} :
         \/ kd[k].kv_pos + kd[k].len <= kd[j].kv_pos
         \/ kd[j].kv_pos + kd[j].len <= kd[k].kv_pos
    /\ Sum([k \in E |-> kd[k].len], E) = size

\* C28: a compaction lays the records of the key directory back to back in
\* its compaction file: while it runs, the entries it has rewritten cover
\* the compaction file from 0 to compact_pos without gap or overlap, and an
\* entry it rewrites keeps its length; when it returns, every entry names the
\* compaction file, with the length it had, and the lengths add up to the
\* size of the compaction file.
C28_CompactionLayout ==
    [][/\ CompactDone =>
            /\ DOMAIN key_dir' = DOMAIN key_dir
            /\ \A k \in DOMAIN key_dir' :
                 /\ key_dir'[k].file_id = current_file_id' - 1
                 /\ key_dir'[k].len = key_dir[k].len
            /\ BackToBack(key_dir', current_file_id' - 1,
                          Len(files'[current_file_id' - 1]))
       /\ \A t \in Threads :
            (pc[t] = "compact_iter" /\ pc'[t] \in {"compact_iter", "compact_unlink"}) =>
               /\ BackToBack(key_dir', current_file_id - 1, compacting'.compact_pos)
               /\ \A k \in DOMAIN key_dir :
                    /\ k \in DOMAIN key_dir' /\ key_dir'[k].len = key_dir[k].len
                    /\ key_dir'[k] # key_dir[k] =>
                         /\ key_dir'[k].file_id = current_file_id - 1
                         /\ key_dir'[k].kv_pos = compacting.compact_pos
               /\ pc'[t] = "compact_unlink" =>
                    Len(files'[current_file_id - 1]) = compacting'.compact_pos]_vars

\* A compaction of project 4 has returned; it took the record of b first and
\* the record of a after it.
C28_Witness ==
    /\ impl = "p4" /\ Quiescent /\ compact_id = current_file_id - 1
    /\ DOMAIN key_dir = Keys
    /\ key_dir["b"].file_id = compact_id /\ key_dir["b"].kv_pos = 0
    /\ key_dir["a"].file_id = compact_id /\ key_dir["a"].kv_pos = key_dir["b"].len
    /\ Len(files[compact_id]) = key_dir["a"].len + key_dir["b"].len

\* The pos taken before the write of a record and the pos taken after its
\* flush delimit the bytes of the record in the file.
Delimited ==
    /\ \A i \in 1..Len(log.written) :
         LET e == log.written[i] IN
         /\ e.end <= Len(log.content)
         /\ SubSeq(log.content, e.start + 1, e.end) = to_writer(e.cmd)
    /\ log.pending = <<>> => log.wpos = Len(log.content)

\* C29, as stated: after every write, read, seek and flush the pos of the
\* writer and the pos of the reader are the offsets of their file handles,
\* and pos before an append and pos after its flush delimit the record.
C29_PosIsFileOffset ==
    /\ log.wpos = log.w.off
    /\ log.rpos = log.r.off
    /\ Delimited

\* C29, amended: pos is the offset of the next byte the caller writes or
\* reads.  The writer's pos is the offset of its file handle plus the bytes
\* held in its BufWriter, and is that offset after a flush; the reader's pos
\* is the offset of its file handle minus the bytes its BufReader has read
\* ahead, and is that offset after a seek; pos before an append and pos after
\* its flush delimit the record in the file.
C29_PosIsLogicalOffset ==
    /\ log.wpos = log.w.off + Len(log.w.buf)
    /\ log.rpos = log.r.off - Len(log.r.buf)
    /\ log.pending = <<>> => log.w.buf = <<>> /\ log.wpos = log.w.off
    /\ Delimited

\* Two records are in the file, the reader has read the first and holds the
\* second in its buffer, and a third record is in the buffer of the writer.
C29_Witness ==
    /\ Len(log.written) = 2 /\ Len(log.pending) = 1
    /\ log.w.buf = to_writer(log.pending[1].cmd)
    /\ log.rpos = log.written[1].end
    /\ log.r.buf = to_writer(log.written[2].cmd)

\* The bytes end with a record that is not complete (every record ends with
\* its closing byte).
EndsTruncated(bytes) == bytes # <<>> /\ bytes[Len(bytes)] # "}"

\* C30: an open of a directory in which a log file ends with a truncated
\* record fails: it returns no engine, so no key directory with an entry for
\* the trailing bytes and no call on the store, and it leaves the directory
\* as it is; the trailing bytes are not skipped.
C30_TruncatedTailFailsOpen ==
    [][/\ (Reopen /\ \E f \in DOMAIN files : EndsTruncated(files[f])) =>
            /\ opened' = FALSE
            /\ files' = files
       /\ ~opened' => \A t \in Threads : pc'[t] = "idle" /\ res'[t].op = "none"]_vars

\* An open has failed on a directory whose active file holds a complete Set
\* of a and the first two bytes of a Set of b.
C30_Witness ==
    /\ ~opened /\ writer_pos = 0 /\ current_file_id \notin DOMAIN files
    /\ \E f \in DOMAIN files : \E v \in Values :
          files[f] = to_writer(Cmd_Set("a", v)) \o <<"{S", "b">>

\* ------------------------------------------------------------ C31
\* The call that returned in the last step, made on project 3's KvStore.
KvStoreReturned ==
    impl = "p3" /\ res[MainThread].op # "none"

\* C31: every call on the log-structured KvStore agrees with the same call on
\* the HashMap store given the same calls before it: a get returns what the
\* HashMap's get returns, a set returns Ok, and a remove returns the error
\* KeyNotFound when the HashMap held no value for the key and Ok when it did;
\* no other call returns an error.
C31_SameAsHashMap ==
    KvStoreReturned =>
        LET r == res[MainThread] IN
        /\ r.op = "get" => r.ret = r.ref
        /\ r.op = "set" => r.ret = Ok
        /\ r.op = "rm" => r.ret = (IF r.ref = None THEN Err("KeyNotFound") ELSE Ok)

\* A get returns the value of the second set of a key after the compaction
\* that set ran, another key has been removed, and the HashMap agrees.
C31_Witness ==
    /\ KvStoreReturned
    /\ res[MainThread].op = "get" /\ res[MainThread].key = "a"
    /\ res[MainThread].ret = Some(<<"x">>)
    /\ res[MainThread].ref = Some(<<"x">>)
    /\ compact_id > 0
    /\ "b" \notin DOMAIN map
    /\ HasRemoveRecord("b")

\* ------------------------------------------------------------ the locks of project 4
\* The calls of KvsEngine with every wait for a lock: the Mutex around
\* KvsWriter, the shard locks of key_dir and the shard locks of the handle
\* cache readers.  A DashMap puts the keys whose hashes agree in one shard;
\* here all keys of key_dir lie in one shard and all file ids of the cache in
\* one shard, the most waiting a DashMap can cause.

\* Another thread holds a Ref of key_dir (read lock of the shard): from
\* key_dir.get(&key) in KvsEngine::get to the return of KvsReader::read.
AnyRefHeld(t) ==
    \E u \in Threads \ {t} : pc[u] \in {"read", "reading", "blocked"}

\* Another thread holds the write lock of key_dir's shard: iter_mut in
\* compact() takes it for its first entry and keeps it to the end of the loop.
IterMutHeld(t) ==
    \E u \in Threads \ {t} :
        /\ pc[u] = "compact_iter"
        /\ compacting.todo # {} /\ compacting.todo # DOMAIN key_dir

\* Another thread holds a RefMut of readers (write lock of the shard): from
\* readers.get_mut in KvsReader::read to its return.
RefMutHeld(t) ==
    \E u \in Threads \ {t} : pc[u] = "reading"

\* KvsEngine::get, key_dir.get(&key): waits for the writer of the shard.
KvsEngine_get_locked(t, k) ==
    /\ ~IterMutHeld(t)
    /\ KvsEngine_get(t, k)

\* KvsReader::read up to readers.get_mut(..).expect(..): check_point(), whose
\* iterator takes the read lock of the cache's shard, and get_mut, which
\* takes its write lock; both wait for a RefMut held by another thread.
KvsReader_get_mut(t) ==
    /\ pc[t] = "read"
    /\ ~RefMutHeld(t)
    /\ \E f \in FirstEntries :
         IF ~check_point_passes(f)
         THEN /\ pc' = [pc EXCEPT ![t] = "blocked"]
              /\ NoReturn
              /\ UNCHANGED call
         ELSE IF key_dir[call[t].key].file_id \notin readers
         THEN Return(t, Panic)
         ELSE /\ pc' = [pc EXCEPT ![t] = "reading"]
              /\ NoReturn
              /\ UNCHANGED call
    /\ UNCHANGED <<map, log, main, dir, server, impl, solo, io_errors, compact_id, opened,
                   store_vars, lock, poisoned, latest, snap>>

\* KvsReader::read from the seek to the return, which drops the RefMut and,
\* in KvsEngine::get, the Ref.
KvsReader_take(t) ==
    /\ pc[t] = "reading"
    /\ Return(t, read(files, readers, key_dir[call[t].key]))
    /\ UNCHANGED <<map, log, main, dir, server, impl, solo, io_errors, compact_id, opened,
                   store_vars, lock, poisoned, latest, snap>>

\* KvsWriter::set, key_dir.insert: waits for the Refs of the shard.
KvsWriter_set_insert_locked(t) ==
    /\ ~AnyRefHeld(t)
    /\ KvsWriter_set_insert(t)

\* KvsEngine::remove, key_dir.contains_key(&key): waits for the writer of the
\* shard.
KvsEngine_remove_locked(t, k) ==
    /\ ~IterMutHeld(t)
    /\ KvsEngine_remove(t, k)

\* KvsWriter::remove, key_dir.remove: waits for the Refs of the shard.
KvsWriter_remove_entry_locked(t) ==
    /\ ~AnyRefHeld(t)
    /\ KvsWriter_remove_entry(t)

\* KvsWriter::compact, a turn of the loop: iter_mut waits for the Refs of the
\* shard (a thread that holds a RefMut of readers holds a Ref too).
KvsWriter_compact_entry_locked(t) ==
    /\ ~AnyRefHeld(t)
    /\ KvsWriter_compact_entry(t)

\* KvsWriter::compact, readers.iter() and readers.remove: wait for the RefMut.
KvsWriter_compact_unlink_locked(t) ==
    /\ ~RefMutHeld(t)
    /\ KvsWriter_compact_unlink(t)

\* What a thread does next in the call it has begun.
Continue(t) ==
    \/ KvsReader_get_mut(t)
    \/ KvsReader_take(t)
    \/ KvsWriter_set_insert_locked(t)
    \/ KvsEngine_remove_lock(t)
    \/ KvsWriter_remove_entry_locked(t)
    \/ KvsWriter_compact_entry_locked(t)
    \/ KvsWriter_compact_flush(t)
    \/ KvsWriter_compact_unlink_locked(t)

NextLocks ==
    \/ \E t \in Threads, k \in Keys : KvsEngine_get_locked(t, k)
    \/ \E t \in Threads, k \in Keys, v \in Values : KvsEngine_set(t, k, v)
    \/ \E t \in Threads, k \in Keys : KvsEngine_remove_locked(t, k)
    \/ \E t \in Threads : Continue(t)

InitLocks == impl = "p4" /\ solo = FALSE /\ Opened

\* The threads are scheduled and the locks are granted: a thread whose next
\* step is possible again and again takes it.
SpecLocks ==
    InitLocks /\ [][NextLocks]_vars /\ \A t \in Threads : SF_vars(Continue(t))

\* ------------------------------------------------------------ C32
\* A call of thread t is in progress: it has begun and has not ended.
InCall(t) == pc[t] # "idle"

\* Thread t has just returned from a call (its thread did not panic in it).
HasReturned(t) == res[t].op # "none" /\ res[t].ret # Panic

\* C32: every call that has begun returns, whatever the other thread does:
\* no thread waits for ever for the Mutex of the writer, for a shard of
\* key_dir or for a shard of the handle cache, also while the other thread
\* runs a compaction inside its set or remove.
C32_EveryCallReturns ==
    \A t \in Threads : InCall(t) ~> HasReturned(t)

\* (C32, the part that holds: every call that has begun ends, by a return or
\* by a panic of its thread; no wait for a lock lasts for ever.)
C32_NoCallWaitsForever ==
    \A t \in Threads : InCall(t) ~> ~InCall(t)

\* A get has ended in a panic while the other thread is still inside the
\* compaction its set or remove runs.
C32_GetAbortedBesideCompaction ==
    \E t \in Threads : \E u \in Threads \ {t} :
        /\ res[t].op = "get" /\ res[t].ret = Panic
        /\ pc[u] \in {"compact_iter", "compact_unlink"}
        /\ lock = u

\* ------------------------------------------------------------ a process killed in compact()
\* The old files that are unlinked when the process stops in the last loop of
\* compact(): none before the loop, and in the loop any of remove_files, which
\* are taken in the order of the hash map's iterator.
Unlinked(t) ==
    IF pc[t] = "compact_unlink"
    THEN SUBSET remove_files(readers, current_file_id - 1)
    ELSE {{}}

\* (An unlinking that follows the file ids upwards: a file is unlinked after
\* every file below it.)
Unlinked_ascending(t) ==
    {S \in Unlinked(t) :
        \A f \in S : \A g \in remove_files(readers, current_file_id - 1) : g < f => g \in S}

\* The process of project 4 stops while thread t is in KvsWriter::compact:
\* after new_log_file has made the two files, after some turns of the copy
\* loop (what compact_writer still holds in its buffer is lost), after the
\* flush, or after the files S are unlinked.  The directory is opened again.
Killed_compact(t) ==
    /\ impl = "p4" /\ pc[t] \in {"compact_iter", "compact_unlink"}
    /\ \E S \in Unlinked(t) :
         LET o == open(Drop(files, S)) IN
         /\ opened' = o.ok
         /\ files' = o.files
         /\ key_dir' = o.key_dir
         /\ readers' = o.readers
         /\ uncompact' = o.uncompact
         /\ current_file_id' = o.current_file_id
    /\ check_point' = 0
    /\ compact_id' = 0
    /\ writer_pos' = 0
    /\ compacting' = NoCompact
    /\ snap' = NoSnap
    /\ lock' = NoThread
    /\ poisoned' = FALSE
    /\ pc' = [u \in Threads |-> "idle"]
    /\ call' = [u \in Threads |-> NoCall]
    /\ NoReturn
    /\ UNCHANGED <<map, log, main, dir, server, impl, solo, io_errors, latest>>

\* The calls of one thread on a store whose process may be killed in a
\* compaction, and the opens of its directory.
NextCompactCrash ==
    \/ Next
    \/ \E t \in Threads : Killed_compact(t)

SpecCompactCrash == InitSolo /\ [][NextCompactCrash]_vars

\* ------------------------------------------------------------ C33
\* The step in which the process stops inside compact() and the directory is
\* opened again: a thread leaves compact() without a return.
StoppedInCompact ==
    \E t \in Threads :
        /\ pc[t] \in {"compact_iter", "compact_unlink"}
        /\ pc'[t] = "idle" /\ res'[t].op = "none"

\* C33: when the process stops at any step of a compaction that began with
\* every get answered, the open of the directory succeeds and get returns for
\* every key what it returned when the compaction began.
C33_CompactionCrashKeepsMapping ==
    [][StoppedInCompact /\ (\A k \in Keys : snap[k] # Panic) =>
            /\ opened'
            /\ \A k \in Keys : GetValue(k)' = snap[k]]_vars

\* The store answers get(a) with a value although the last call on a was a
\* remove that returned Ok: the process stopped in compact() after the file
\* with the Remove record was unlinked and before the file with the Set.
C33_RemovedKeyIsBack ==
    /\ impl = "p4" /\ opened
    /\ latest["a"] = None
    /\ GetValue("a") \in {Some(v) : v \in Values}
    /\ \A t \in Threads : pc[t] = "idle"

\* ------------------------------------------------------------ C34
\* The store is closed and opened again by a process that has run no
\* compaction: every record its calls appended is still in the log.
ReopenWithoutCompaction ==
    Reopen /\ opened /\ compact_id = 0

\* C34: when a store that has run no compaction is closed and opened again,
\* the uncompact the open computes from the log is the uncompact the writer
\* held before the close.
C34_UncompactSurvivesReopen ==
    [][ReopenWithoutCompaction => uncompact' = uncompact]_vars

\* (C34 for a log without Remove records: the recount agrees.)
C34_UncompactOfSetsSurvivesReopen ==
    [][ReopenWithoutCompaction /\ (\A k \in Keys : ~HasRemoveRecord(k)) =>
            uncompact' = uncompact]_vars

\* A store just opened on a directory whose log is set(a, "x"); remove(a):
\* the open has counted both records, 7 bytes, where the writer that removed
\* a had counted the 4 bytes of the Set record.
C34_RemoveRecordRecounted ==
    /\ opened /\ \A t \in Threads : pc[t] = "idle"
    /\ current_file_id = 2 /\ writer_pos = 0 /\ files[2] = <<>>
    /\ files[1] = to_writer(Cmd_Set("a", <<"x">>)) \o to_writer(Cmd_Remove("a"))
    /\ uncompact = Len(files[1])
    /\ uncompact > Len(to_writer(Cmd_Set("a", <<"x">>)))

====
